---- MODULE Spec2Model ----
(***************************************************************************)
(* A model of the browser agent: the risk assessor (SecurityLayer), the    *)
(* tab table (BrowserManager) and the task loop of BrowserAgent            *)
(* (executeTask, shouldConfirm, confirmAction, executeTool).               *)
(*                                                                         *)
(* Strings are TLA+ strings.  A letter outside ASCII is written as "~NN"   *)
(* (lower case) or "^NN" (upper case), NN the two-digit code below, so     *)
(* that substring tests and lower-casing act on it as on one letter:       *)
(*   10 k(ru) 11 u 12 p 13 i 14 t 15 soft-sign 16 o 17 l 18 a 19 f 20 r    *)
(*   21 m 22 z 23 e 24 zh 25 d 26 s 27 n 28 ch 29 ya 30 v 31 y 32 o-uml    *)
(*   33 b 34 g 35 short-i 36 h 37 o-acute 38 e-acute                       *)
(***************************************************************************)
EXTENDS Integers, Sequences, FiniteSets, TLC

----------------------------------------------------------------------------
(* Strings *)

\* String.prototype.includes
Includes(s, k) ==
  \E i \in 1..(Len(s) - Len(k) + 1) : SubSeq(s, i, i + Len(k) - 1) = k

UpperChars == "ABCDEFGHIJKLMNOPQRSTUVWXYZ^"
LowerChars == "abcdefghijklmnopqrstuvwxyz~"

LowerChar(c) ==
  IF \E i \in 1..Len(UpperChars) : SubSeq(UpperChars, i, i) = c
  THEN LET i == CHOOSE j \in 1..Len(UpperChars) : SubSeq(UpperChars, j, j) = c
       IN  SubSeq(LowerChars, i, i)
  ELSE c

\* A lower-casing that leaves the string as it is.
ToLowerCaseIdentity(s) == s

RECURSIVE ToLowerCase(_)
\* String.prototype.toLowerCase
ToLowerCase(s) ==
  IF s = "" THEN ""
  ELSE LowerChar(SubSeq(s, 1, 1)) \o ToLowerCase(SubSeq(s, 2, Len(s)))

\* The first element of a sequence that satisfies Test, as a sequence of
\* length 0 or 1 (Array.prototype.find / a for loop that returns early).
FirstWhere(seq, Test(_)) ==
  LET hits == SelectSeq(seq, Test)
  IN  IF hits = <<>> THEN <<>> ELSE <<hits[1]>>

RECURSIVE Flatten(_)
Flatten(seqs) ==
  IF seqs = <<>> THEN <<>> ELSE Head(seqs) \o Flatten(Tail(seqs))

----------------------------------------------------------------------------
(* constants/security.ts *)

DESTRUCTIVE_KEYWORDS ==
  <<
  [category |-> "financial", languages |-> <<
        [lang |-> "en", keywords |-> <<"buy", "purchase", "pay", "checkout", "order", "payment", "billing", "card", "subscribe", "donate">>],
        [lang |-> "ru", keywords |-> <<"~10~11~12~13~14~15", "~16~12~17~18~14~13~14~15", "~12~17~18~14~13~14~15", "~16~19~16~20~21~13~14~15", "~22~18~10~18~22", "~12~17~18~14~23~24", "~12~16~25~12~13~26~10~18", "~25~16~27~18~14">>],
        [lang |-> "es", keywords |-> <<"comprar", "pagar", "pedido", "pago">>],
        [lang |-> "de", keywords |-> <<"kaufen", "bezahlen", "bestellen", "zahlung">>],
        [lang |-> "fr", keywords |-> <<"acheter", "payer", "commande", "paiement">>] >>],
  [category |-> "data_loss", languages |-> <<
        [lang |-> "en", keywords |-> <<"delete", "remove", "clear", "erase", "cancel", "unsubscribe", "deactivate", "close account">>],
        [lang |-> "ru", keywords |-> <<"~11~25~18~17~13~14~15", "~16~28~13~26~14~13~14~15", "~26~14~23~20~23~14~15", "~16~14~21~23~27~13~14~15", "~16~14~12~13~26~18~14~15~26~29", "~25~23~18~10~14~13~30~13~20~16~30~18~14~15", "~22~18~10~20~31~14~15">>],
        [lang |-> "es", keywords |-> <<"eliminar", "borrar", "cancelar">>],
        [lang |-> "de", keywords |-> <<"l~32schen", "entfernen", "abbrechen">>],
        [lang |-> "fr", keywords |-> <<"supprimer", "effacer", "annuler">>] >>],
  [category |-> "content_modification", languages |-> <<
        [lang |-> "en", keywords |-> <<"send", "post", "publish", "submit", "upload", "share", "create", "edit">>],
        [lang |-> "ru", keywords |-> <<"~16~14~12~20~18~30~13~14~15", "~16~12~11~33~17~13~10~16~30~18~14~15", "~20~18~22~21~23~26~14~13~14~15", "~22~18~34~20~11~22~13~14~15", "~12~16~25~23~17~13~14~15~26~29", "~26~16~22~25~18~14~15", "~20~23~25~18~10~14~13~20~16~30~18~14~15">>],
        [lang |-> "es", keywords |-> <<"enviar", "publicar", "compartir">>],
        [lang |-> "de", keywords |-> <<"senden", "ver~32ffentlichen", "teilen">>],
        [lang |-> "fr", keywords |-> <<"envoyer", "publier", "partager">>] >>],
  [category |-> "account", languages |-> <<
        [lang |-> "en", keywords |-> <<"logout", "log out", "sign out", "change password", "reset", "verify">>],
        [lang |-> "ru", keywords |-> <<"~30~31~35~14~13", "~30~31~36~16~25", "~26~21~23~27~13~14~15 ~12~18~20~16~17~15", "~26~33~20~16~26~13~14~15">>],
        [lang |-> "es", keywords |-> <<"cerrar sesi~37n", "salir">>],
        [lang |-> "de", keywords |-> <<"abmelden", "ausloggen">>],
        [lang |-> "fr", keywords |-> <<"d~38connexion", "se d~38connecter">>] >>]
  >>

SENSITIVE_URL_PATTERNS ==
  <<"checkout", "payment", "cart", "order", "billing",
    "delete", "remove", "settings", "account", "profile">>

SENSITIVE_FORM_INDICATORS ==
  <<"payment", "credit-card", "cvv", "card-number", "billing", "password">>

RISK_LEVEL_ORDER ==
  [critical |-> 4, high |-> 3, medium |-> 2, low |-> 1]

----------------------------------------------------------------------------
(* SecurityLayer *)

\* The value of a template literal for an absent category.
Undefined == "undefined"

\* An attribute record is a sequence of <<name, value>> pairs, in insertion
\* order.  Attr is the property read attributes.name ("" when absent).
Attr(attributes, name) ==
  LET hits == SelectSeq(attributes, LAMBDA p : p[1] = name)
  IN  IF hits = <<>> THEN "" ELSE hits[1][2]

RECURSIVE JsonMembers(_)
JsonMembers(attributes) ==
  IF attributes = <<>> THEN ""
  ELSE "\"" \o attributes[1][1] \o "\":\"" \o attributes[1][2] \o "\""
       \o (IF Len(attributes) > 1 THEN "," ELSE "")
       \o JsonMembers(Tail(attributes))

\* JSON.stringify of a Record<string, string>
JsonStringify(attributes) == "{" \o JsonMembers(attributes) \o "}"

\* A table that ranks the financial category medium.
getRiskLevelForCategoryFinancialMedium(category) ==
  CASE category = "financial" -> "medium"
    [] category = "data_loss" -> "high"
    [] category = "account" -> "high"
    [] category = "privacy" -> "medium"
    [] category = "content_modification" -> "medium"

getRiskLevelForCategory(category) ==
  CASE category = "financial" -> "critical"
    [] category = "data_loss" -> "high"
    [] category = "account" -> "high"
    [] category = "privacy" -> "medium"
    [] category = "content_modification" -> "medium"

\* The dictionary in scan order: categories, then languages, then keywords.
KeywordScan ==
  Flatten([c \in 1..Len(DESTRUCTIVE_KEYWORDS) |->
    Flatten([l \in 1..Len(DESTRUCTIVE_KEYWORDS[c].languages) |->
      [k \in 1..Len(DESTRUCTIVE_KEYWORDS[c].languages[l].keywords) |->
        [category |-> DESTRUCTIVE_KEYWORDS[c].category,
         lang |-> DESTRUCTIVE_KEYWORDS[c].languages[l].lang,
         keyword |-> DESTRUCTIVE_KEYWORDS[c].languages[l].keywords[k]]]])])

checkTextForDestructiveKeywords(text) ==
  LET lowerText == ToLowerCase(text)
      hit == FirstWhere(KeywordScan, LAMBDA e : Includes(lowerText, e.keyword))
  IN  IF hit = <<>> THEN <<>>
      ELSE <<[isDestructive |-> TRUE,
              riskLevel |-> getRiskLevelForCategory(hit[1].category),
              reason |-> "Detected " \o hit[1].category \o " keyword: \""
                         \o hit[1].keyword \o "\" (" \o hit[1].lang \o ")",
              category |-> hit[1].category]>>

ButtonIndicators ==
  <<"delete", "remove", "buy", "purchase", "pay", "submit-payment",
    "checkout", "confirm-order">>

checkAttributesForDestructiveIndicators(attributes) ==
  LET attrString == ToLowerCase(JsonStringify(attributes))
      button == IF Attr(attributes, "type") = "submit"
                   \/ Attr(attributes, "role") = "button"
                THEN FirstWhere(ButtonIndicators,
                                LAMBDA i : Includes(attrString, i))
                ELSE <<>>
      form == FirstWhere(SENSITIVE_FORM_INDICATORS,
                         LAMBDA i : Includes(attrString, i))
  IN  IF button # <<>>
      THEN <<[isDestructive |-> TRUE, riskLevel |-> "high",
              reason |-> "Button/submit with destructive attribute pattern: "
                         \o button[1],
              category |-> "content_modification"]>>
      ELSE IF form # <<>>
      THEN <<[isDestructive |-> TRUE, riskLevel |-> "critical",
              reason |-> "Sensitive form field detected: " \o form[1],
              category |-> "financial"]>>
      ELSE <<>>

checkUrlForSensitivePatterns(url) ==
  LET lowerUrl == ToLowerCase(url)
      hit == FirstWhere(SENSITIVE_URL_PATTERNS,
                        LAMBDA p : Includes(lowerUrl, p))
  IN  IF hit = <<>> THEN <<>>
      ELSE <<[isDestructive |-> TRUE, riskLevel |-> "medium",
              reason |-> "Operating in sensitive area: " \o hit[1],
              category |-> "privacy"]>>

sensitiveContexts ==
  <<[pattern |-> "checkout", category |-> "financial", risk |-> "high"],
    [pattern |-> "payment", category |-> "financial", risk |-> "critical"],
    [pattern |-> "cart", category |-> "financial", risk |-> "low"],
    [pattern |-> "billing", category |-> "financial", risk |-> "high"],
    [pattern |-> "delete", category |-> "data_loss", risk |-> "high"],
    [pattern |-> "settings", category |-> "account", risk |-> "medium"]>>

checkSemanticContext(context) ==
  LET lowerContext == ToLowerCase(context)
      hit == FirstWhere(sensitiveContexts,
                        LAMBDA c : Includes(lowerContext, c.pattern))
  IN  IF hit = <<>> THEN <<>>
      ELSE <<[isDestructive |-> TRUE, riskLevel |-> hit[1].risk,
              reason |-> "Action in sensitive context: " \o hit[1].pattern,
              category |-> hit[1].category]>>

assessTypeAction(context) ==
  LET attrs == context.elementAttributes
      attrString == ToLowerCase(JsonStringify(attrs))
  IN  IF Attr(attrs, "type") = "password"
      THEN <<[isDestructive |-> TRUE, riskLevel |-> "high",
              reason |-> "Typing into password field",
              category |-> "account"]>>
      ELSE IF \/ Includes(attrString, "card")
              \/ Includes(attrString, "cvv")
              \/ Includes(attrString, "credit")
      THEN <<[isDestructive |-> TRUE, riskLevel |-> "critical",
              reason |-> "Typing into payment information field",
              category |-> "financial"]>>
      ELSE <<>>

\* A sort by descending RISK_LEVEL_ORDER that reverses assessments of equal
\* risk.
SortByRiskReversingTies(assessments) ==
  Flatten([r \in 1..4 |->
    LET same == SelectSeq(assessments,
                          LAMBDA a : RISK_LEVEL_ORDER[a.riskLevel] = 5 - r)
    IN  [i \in 1..Len(same) |-> same[Len(same) - i + 1]]])

\* Array.prototype.sort with the comparator of assessAction: a stable sort
\* by descending RISK_LEVEL_ORDER.
SortByRisk(assessments) ==
  Flatten([r \in 1..4 |->
    SelectSeq(assessments,
              LAMBDA a : RISK_LEVEL_ORDER[a.riskLevel] = 5 - r)])

\* The candidates with the type-specific signal evaluated first.
FiredSignalsTypeFirst(context) ==
  (IF context.action = "type_text"
   THEN assessTypeAction(context) ELSE <<>>)
  \o (IF context.elementText # ""
      THEN checkTextForDestructiveKeywords(context.elementText) ELSE <<>>)
  \o (IF context.hasElement
      THEN checkAttributesForDestructiveIndicators(context.elementAttributes)
      ELSE <<>>)
  \o (IF context.pageUrl # ""
      THEN checkUrlForSensitivePatterns(context.pageUrl) ELSE <<>>)
  \o (IF context.semanticContext # ""
      THEN checkSemanticContext(context.semanticContext) ELSE <<>>)

\* The signals of assessAction in evaluation order.  A context is
\* [action, hasElement, elementText, elementAttributes, pageUrl,
\* semanticContext]; hasElement = FALSE stands for the undefined text,
\* attributes and semantic context of an element that was not found.
FiredSignals(context) ==
  (IF context.elementText # ""
   THEN checkTextForDestructiveKeywords(context.elementText) ELSE <<>>)
  \o (IF context.hasElement
      THEN checkAttributesForDestructiveIndicators(context.elementAttributes)
      ELSE <<>>)
  \o (IF context.pageUrl # ""
      THEN checkUrlForSensitivePatterns(context.pageUrl) ELSE <<>>)
  \o (IF context.semanticContext # ""
      THEN checkSemanticContext(context.semanticContext) ELSE <<>>)
  \o (IF context.action = "type_text"
      THEN assessTypeAction(context) ELSE <<>>)

\* An assessAction whose isDestructive follows the risk level.
assessActionByLevel(context) ==
  LET assessments == FiredSignals(context)
  IN  IF assessments = <<>>
      THEN [isDestructive |-> FALSE, riskLevel |-> "low",
            reason |-> "No destructive patterns detected",
            category |-> Undefined]
      ELSE LET first == SortByRisk(assessments)[1]
           IN  [first EXCEPT !.isDestructive = first.riskLevel # "low"]

assessAction(context) ==
  LET assessments == FiredSignals(context)
  IN  IF assessments = <<>>
      THEN [isDestructive |-> FALSE, riskLevel |-> "low",
            reason |-> "No destructive patterns detected",
            category |-> Undefined]
      ELSE [SortByRisk(assessments)[1] EXCEPT !.isDestructive = TRUE]

----------------------------------------------------------------------------
(* Bounds of the model *)

\* Tasks given to one agent in a session.
MaxTasks == 2
\* The largest configured maxIterations.
MaxIter == 2
\* Tool calls in one decision.
MaxCalls == 2
\* Entries of the conversation at which no further decision is requested.
MaxHistory == 7

----------------------------------------------------------------------------
(* The pages the browser can show *)

BlankUrl == "about:blank"
HomeUrl == "https://shop.example/"
CartUrl == "https://shop.example/cart"

\* The elements extractSimplifiedDOM finds in the document at url, in
\* document order.
Dom(url) ==
  IF url = HomeUrl
  THEN <<[tag |-> "button", text |-> "Buy now",
          attributes |-> <<<<"type", "submit">>>>,
          semanticContext |-> "in main content"],
         [tag |-> "a", text |-> "About",
          attributes |-> <<<<"href", "/about">>>>,
          semanticContext |-> "in navigation, under \"Your cart\""]>>
  ELSE IF url = CartUrl
  THEN <<[tag |-> "a", text |-> "Continue",
          attributes |-> <<<<"href", "/">>>>,
          semanticContext |-> "in main content"]>>
  ELSE <<>>

\* A freshly loaded document: no element carries a data-agent-id.
LoadPage(url) == [url |-> url, tags |-> [i \in 1..Len(Dom(url)) |-> ""]]

----------------------------------------------------------------------------
(* BrowserManager: pages is the Map in insertion order, as a sequence of   *)
(* [id, page]; currentPageId is "" for null.                               *)

NoPage == ""

PageIds(pgs) == {pgs[i].id : i \in 1..Len(pgs)}

PageOf(pgs, id) == (CHOOSE i \in 1..Len(pgs) : pgs[i].id = id)

\* getCurrentPage throws 'No active page' exactly when this is false.
HasCurrentPage(pgs, cur) == cur # NoPage /\ cur \in PageIds(pgs)

\* Map.prototype.set
MapSet(pgs, id, page) ==
  IF id \in PageIds(pgs)
  THEN [pgs EXCEPT ![PageOf(pgs, id)].page = page]
  ELSE Append(pgs, [id |-> id, page |-> page])

\* Map.prototype.delete
MapDelete(pgs, id) == SelectSeq(pgs, LAMBDA e : e.id # id)

createNewTabId(pgs) == "page-" \o ToString(Len(pgs))

\* currentPageId after closeTab(pageId)
CurrentAfterClose(pgs, cur, pageId) ==
  LET remaining == MapDelete(pgs, pageId)
  IN  IF cur = pageId
      THEN (IF Len(remaining) > 0 THEN remaining[1].id ELSE NoPage)
      ELSE cur

----------------------------------------------------------------------------
(* BrowserAgent: configuration and inputs *)

DefaultMaxIterations == 50

\* The constructor's defaults: an option left out ("unset") gets its default.
AgentConfig(options) ==
  [requireConfirmation |->
     IF options.requireConfirmation = "unset" THEN TRUE
     ELSE options.requireConfirmation = "true",
   maxIterations |->
     IF options.maxIterations = -1 THEN DefaultMaxIterations
     ELSE options.maxIterations,
   showPlanVisualization |->
     IF options.showPlanVisualization = "unset" THEN TRUE
     ELSE options.showPlanVisualization = "true",
   showActionHistory |->
     IF options.showActionHistory = "unset" THEN TRUE
     ELSE options.showActionHistory = "true",
   enableThinking |->
     IF options.enableThinking = "unset" THEN TRUE
     ELSE options.enableThinking = "true",
   showThinkingProcess |->
     IF options.showThinkingProcess = "unset" THEN TRUE
     ELSE options.showThinkingProcess = "true"]

\* The options the agent is constructed with (maxIterations -1: left out).
OptionSamples ==
  [requireConfirmation : {"unset", "false"},
   maxIterations : 1..MaxIter,
   showPlanVisualization : {"unset"},
   showActionHistory : {"unset"},
   enableThinking : {"unset"},
   showThinkingProcess : {"unset"}]

\* The page a launched browser shows (launchPersistent takes the first page
\* of the persistent context).
StartUrls == {HomeUrl, CartUrl}

Tasks == {"buy milk"}

\* Parsed tool-call arguments; "" stands for a property that is left out
\* and parses = FALSE for an argument string that JSON.parse rejects.
NoArgs == [parses |-> TRUE, element_id |-> "", url |-> "", tab_id |-> ""]

\* The tool calls a decision is made of.
CoreCalls ==
  { [name |-> "navigate", args |-> [NoArgs EXCEPT !.url = CartUrl]],
    [name |-> "get_page_content", args |-> NoArgs],
    [name |-> "click", args |-> [NoArgs EXCEPT !.element_id = "el-0"]],
    [name |-> "click", args |-> [NoArgs EXCEPT !.element_id = "el-1"]],
    [name |-> "close_tab", args |-> [NoArgs EXCEPT !.tab_id = "page-0"]],
    [name |-> "fly", args |-> NoArgs],
    [name |-> "scroll", args |-> [NoArgs EXCEPT !.parses = FALSE]],
    [name |-> "complete_task", args |-> NoArgs] }

\* The arguments of update_plan.  A property that is left out is <<>>, one
\* that is given is <<value>>; a step's status "" is a status left out.
PlanArgs(steps, index, criteria, adaptations) ==
  [parses |-> TRUE, element_id |-> "", url |-> "", tab_id |-> "",
   steps |-> steps, current_step_index |-> index,
   completion_criteria |-> criteria, adaptations |-> adaptations]

StepsSamples ==
  {<<>>,
   << <<>> >>,
   <<<<[description |-> "open the shop", status |-> ""]>>>>,
   <<<<[description |-> "find milk", status |-> "completed"],
       [description |-> "add to cart", status |-> ""]>>>>}

IndexSamples == {<<>>, <<-1>>, <<0>>, <<2>>}

NotesSamples ==
  {[criteria |-> <<>>, adaptations |-> <<>>],
   [criteria |-> <<<<"milk is in the cart">>>>,
    adaptations |-> <<<<"search instead of browsing">>>>]}

\* The tool calls of a decision that plans.
PlanCalls ==
  {[name |-> "update_plan",
    args |-> PlanArgs(st, ix, n.criteria, n.adaptations)] :
     st \in StepsSamples, ix \in IndexSamples, n \in NotesSamples}
  \cup {[name |-> "complete_task", args |-> NoArgs]}

\* The arguments of find_element: the text to look for.  attribute and
\* attribute_value are the properties the tool contract names,
\* attributeValue is the property executeTool reads.
FindArgs(text) ==
  [parses |-> TRUE, element_id |-> "", url |-> "", tab_id |-> "",
   text |-> text, attribute |-> "", attribute_value |-> "",
   attributeValue |-> ""]

\* The arguments of find_element by attribute, as the tool contract names
\* them.
AttributeArgs(attribute, value) ==
  [FindArgs("") EXCEPT !.attribute = attribute, !.attribute_value = value]

\* The tool calls of a decision that looks for elements by attribute; the
\* last find_element uses the property name attributeValue.
AttributeCalls ==
  {[name |-> "find_element", args |-> AttributeArgs("href", "/about")],
   [name |-> "find_element", args |-> AttributeArgs("type", "submit")],
   [name |-> "find_element", args |-> AttributeArgs("href", "/checkout")],
   [name |-> "find_element",
    args |-> [FindArgs("") EXCEPT !.attribute = "href",
                                  !.attributeValue = "/about"]],
   [name |-> "complete_task", args |-> NoArgs]}

\* `el-${Date.now()}`
TimestampId == "el-1700000000000"

\* The arguments of wait.
WaitArgs(milliseconds) ==
  [parses |-> TRUE, element_id |-> "", url |-> "", tab_id |-> "",
   milliseconds |-> milliseconds]

WaitLimit == 10000

\* Requested waits around the limit, in milliseconds.
WaitSamples == {-5, 0, 500, WaitLimit - 1, WaitLimit, WaitLimit + 1, 60000}

\* The tool calls of a decision that waits.
WaitCalls ==
  {[name |-> "wait", args |-> WaitArgs(ms)] : ms \in WaitSamples}
  \cup {[name |-> "complete_task", args |-> NoArgs]}

\* The tool calls of a decision that works with tabs.
TabCalls ==
  {[name |-> "new_tab", args |-> NoArgs],
   [name |-> "new_tab", args |-> [NoArgs EXCEPT !.url = CartUrl]],
   [name |-> "switch_tab", args |-> [NoArgs EXCEPT !.tab_id = "page-1"]],
   [name |-> "close_tab", args |-> [NoArgs EXCEPT !.tab_id = "page-0"]],
   [name |-> "close_tab", args |-> [NoArgs EXCEPT !.tab_id = "page-1"]],
   [name |-> "complete_task", args |-> NoArgs]}

\* The tool calls of a decision that looks for elements and clicks.
FindCalls ==
  {[name |-> "get_page_content", args |-> NoArgs],
   [name |-> "find_element", args |-> FindArgs("about")],
   [name |-> "find_element", args |-> FindArgs("buy")],
   [name |-> "click", args |-> [NoArgs EXCEPT !.element_id = "el-0"]],
   [name |-> "click", args |-> [NoArgs EXCEPT !.element_id = TimestampId]],
   [name |-> "complete_task", args |-> NoArgs]}

\* The options of an agent that plans.
PlanOptionSamples ==
  [requireConfirmation : {"unset", "false"},
   maxIterations : {MaxIter},
   showPlanVisualization : {"unset", "false"},
   showActionHistory : {"unset"},
   enableThinking : {"unset"},
   showThinkingProcess : {"unset"}]

\* The sequences of at most n elements of S.
SeqsUpTo(S, n) == UNION {[1..k -> S] : k \in 0..n}

----------------------------------------------------------------------------
(* BrowserAgent: state *)

VARIABLES
  config,               \* this.config
  conversationHistory,  \* this.conversationHistory
  currentElements,      \* this.currentElements
  isTaskComplete,       \* this.isTaskComplete
  currentPlan,          \* this.currentPlan: <<>> for null, else <<plan>>
  confirmedActions,     \* this.confirmedActions
  actionHistory,        \* this.visualizer.actionHistory
  pages,                \* this.browserManager.pages
  currentPageId,        \* this.browserManager.currentPageId
  pc,                   \* where executeTask stands
  task,                 \* executeTask's argument
  iteration,            \* executeTask's local iteration
  toolCalls,            \* message.tool_calls of the decision being handled
  callIdx,              \* position of the for loop over message.tool_calls
  nextCallId,           \* the correlation id the provider hands out next
  taskNo,               \* tasks started so far
  llmRequests,          \* model requests made by the current task
  prompts,              \* confirmation prompts answered in the current task
  dispatched,           \* executeTool calls made by the current task
  gate,                 \* what the gate found for the call being handled
  envFailure,           \* whether 'No active page' was raised in the current
                        \* task, and if so with the task "running" or "complete"
  everApproved,         \* the keys approved in any task of the session
  outcome,              \* how the last executeTask ended
  assessInput,          \* the context handed to SecurityLayer.assessAction
  assessOutput,         \* <<>>, or <<the assessment it returned>>
  trackerOp,            \* the AgentVisualizer method called last
  thinkingBuffer,       \* this.visualizer.thinkingBuffer
  thinkingContent,      \* chatWithThinkingStream's local thinkingContent
  outstanding,          \* the promises executeTask has started and not yet
                        \* seen settle: "model", "prompt", "dispatch"
  deltas,               \* the tool-call deltas the stream has delivered
  streamedToolCalls     \* chatWithThinkingStream's local toolCalls

vars ==
  <<config, conversationHistory, currentElements, isTaskComplete, currentPlan,
    confirmedActions, actionHistory, pages, currentPageId, pc, task,
    iteration, toolCalls, callIdx, nextCallId, taskNo, llmRequests, prompts,
    dispatched, gate, envFailure, everApproved, outcome, assessInput,
    assessOutput, trackerOp, thinkingBuffer, thinkingContent, outstanding,
    deltas, streamedToolCalls>>

assemblerVars == <<deltas, streamedToolCalls>>
assessVars == <<assessInput, assessOutput>>
visualizerVars == <<trackerOp, thinkingBuffer>>
streamVars == <<thinkingBuffer, thinkingContent>>

agentVars ==
  <<currentElements, isTaskComplete, currentPlan, confirmedActions,
    actionHistory>>
browserVars == <<pages, currentPageId>>

NoGate ==
  [assessed |-> FALSE, riskLevel |-> "low", isDestructive |-> FALSE,
   key |-> "", known |-> FALSE, prompted |-> FALSE, approved |-> FALSE]

Message(role, content, id, calls) ==
  [role |-> role, content |-> content, tool_call_id |-> id,
   tool_calls |-> calls]

SystemPrompt == "You are an intelligent web automation agent."

\* A push that keeps the conversation to a window of the last entries.
PushWindowed(history, entry) ==
  IF Len(history) >= 4 THEN Append(Tail(history), entry)
  ELSE Append(history, entry)

\* this.conversationHistory.push(entry)
Push(history, entry) == Append(history, entry)

\* The state after new BrowserAgent(options) and initialize().
AgentInitFrom(optionSamples) ==
  /\ \E options \in optionSamples : config = AgentConfig(options)
  /\ \E url \in StartUrls :
       pages = <<[id |-> "page-0", page |-> LoadPage(url)]>>
  /\ currentPageId = "page-0"
  /\ conversationHistory = <<Message("system", SystemPrompt, 0, <<>>)>>
  /\ currentElements = <<>>
  /\ isTaskComplete = FALSE
  /\ currentPlan = <<>>
  /\ confirmedActions = {}
  /\ actionHistory = <<>>
  /\ pc = "idle"
  /\ task = ""
  /\ iteration = 0
  /\ toolCalls = <<>>
  /\ callIdx = 0
  /\ nextCallId = 1
  /\ taskNo = 0
  /\ llmRequests = 0
  /\ prompts = <<>>
  /\ dispatched = <<>>
  /\ gate = NoGate
  /\ envFailure = "none"
  /\ everApproved = {}
  /\ outcome = "none"

\* A context without an element, page or semantic context.
NoContext ==
  [action |-> "", hasElement |-> FALSE, elementText |-> "",
   elementAttributes |-> <<>>, pageUrl |-> "", semanticContext |-> ""]

AgentInit == AgentInitFrom(OptionSamples)

Init ==
  /\ AgentInit
  /\ assessInput = NoContext
  /\ assessOutput = <<>>
  /\ trackerOp = "none"
  /\ thinkingBuffer = ""
  /\ thinkingContent = ""
  /\ outstanding = <<>>
  /\ deltas = <<>>
  /\ streamedToolCalls = <<>>

----------------------------------------------------------------------------
(* BrowserAgent: the confirmation gate *)

\* this.currentElements.find(el => el.id === args.element_id)
FindElement(elems, elementId) ==
  FirstWhere(elems, LAMBDA el : el.id = elementId)

\* The context shouldConfirm and confirmAction build.
ActionContext(toolName, args, elems, pgs, cur) ==
  LET element == FindElement(elems, args.element_id)
  IN  [action |-> toolName,
       hasElement |-> element # <<>>,
       elementText |-> IF element = <<>> THEN "" ELSE element[1].text,
       elementAttributes |->
         IF element = <<>> THEN <<>> ELSE element[1].attributes,
       pageUrl |-> pgs[PageOf(pgs, cur)].page.url,
       semanticContext |->
         IF element = <<>> THEN "" ELSE element[1].semanticContext]

\* SecurityLayer.assessAction(context), tabulated once over the contexts the
\* gate can build from the tool names, elements and pages of the model.
ToolNames ==
  {c.name : c \in CoreCalls \cup PlanCalls \cup FindCalls \cup TabCalls
                 \cup WaitCalls}
SiteUrls == {BlankUrl, HomeUrl, CartUrl}
GateContexts ==
  {[action |-> n, hasElement |-> FALSE, elementText |-> "",
    elementAttributes |-> <<>>, pageUrl |-> u, semanticContext |-> ""] :
     n \in ToolNames, u \in SiteUrls}
  \cup
  UNION {{[action |-> n, hasElement |-> TRUE, elementText |-> el.text,
           elementAttributes |-> el.attributes, pageUrl |-> u,
           semanticContext |-> sc] :
            n \in ToolNames, u \in SiteUrls,
            sc \in {el.semanticContext, ""}} :
         el \in UNION {{Dom(v)[i] : i \in 1..Len(Dom(v))} : v \in SiteUrls}}
AssessmentTable == [c \in GateContexts |-> assessAction(c)]
Assess(context) == AssessmentTable[context]

\* `${toolName}:${element?.text || ''}:${assessment.category}`
ActionKey(toolName, elementText, category) ==
  toolName \o ":" \o elementText \o ":" \o category

KeyOf(toolName, args, elems, pgs, cur) ==
  LET context == ActionContext(toolName, args, elems, pgs, cur)
  IN  ActionKey(toolName, context.elementText,
                Assess(context).category)

\* shouldConfirm letting medium pass like low.
shouldConfirmAboveMedium(toolName, args, elems, pgs, cur, confirmed) ==
  LET context == ActionContext(toolName, args, elems, pgs, cur)
      assessment == Assess(context)
      actionKey == ActionKey(toolName, context.elementText,
                             assessment.category)
  IN  IF assessment.riskLevel \in {"low", "medium"} THEN FALSE
      ELSE IF actionKey \in confirmed THEN FALSE
      ELSE /\ assessment.isDestructive
           /\ assessment.riskLevel \in {"high", "critical"}

\* shouldConfirm without the lookup in confirmedActions.
shouldConfirmForgetful(toolName, args, elems, pgs, cur, confirmed) ==
  LET assessment == Assess(ActionContext(toolName, args, elems, pgs, cur))
  IN  /\ assessment.riskLevel # "low"
      /\ assessment.isDestructive
      /\ assessment.riskLevel \in {"medium", "high", "critical"}

shouldConfirm(toolName, args, elems, pgs, cur, confirmed) ==
  LET context == ActionContext(toolName, args, elems, pgs, cur)
      assessment == Assess(context)
      actionKey == ActionKey(toolName, context.elementText,
                             assessment.category)
  IN  IF assessment.riskLevel = "low" THEN FALSE
      ELSE IF actionKey \in confirmed THEN FALSE
      ELSE /\ assessment.isDestructive
           /\ assessment.riskLevel \in {"medium", "high", "critical"}

\* The guard of the prompt with || for &&.
PromptRequiredEither(requireConfirmation, should) ==
  requireConfirmation \/ should

\* The condition of the if statement that guards the prompt.
PromptRequired(requireConfirmation, should) ==
  requireConfirmation /\ should

\* confirmAction remembering the key whatever the answer.
ConfirmedAfterAnyAnswer(confirmed, actionKey, answer) ==
  confirmed \cup {actionKey}

\* confirmAction with the test of the answer inverted.
ConfirmedAfterDenial(confirmed, actionKey, answer) ==
  IF answer THEN confirmed ELSE confirmed \cup {actionKey}

\* this.confirmedActions after confirmAction got the user's answer.
ConfirmedAfterAnswer(confirmed, actionKey, answer) ==
  IF answer THEN confirmed \cup {actionKey} ELSE confirmed

\* The loop without the continue after a denial.
ProceedsAfterAnyAnswer(answer) == TRUE

\* Whether the call is dispatched after the prompt was answered.
ProceedsAfterAnswer(answer) == answer

----------------------------------------------------------------------------
(* BrowserAgent: executeTool *)

AgentId(i) == "el-" \o ToString(i - 1)

Min(a, b) == IF a < b THEN a ELSE b

DefaultMaxElements == 50

\* extractSimplifiedDOM without a filter: every element of the document is
\* tagged el-0, el-1, ... and described; at most maxElements are returned.
extractSimplifiedDOM(page) ==
  LET dom == Dom(page.url)
      all == [i \in 1..Len(dom) |->
                [id |-> AgentId(i), tag |-> dom[i].tag, text |-> dom[i].text,
                 attributes |-> dom[i].attributes,
                 semanticContext |-> dom[i].semanticContext]]
  IN  SubSeq(all, 1, Min(Len(all), DefaultMaxElements))

TagAll(page) == [page EXCEPT !.tags = [i \in 1..Len(Dom(page.url)) |-> AgentId(i)]]

\* Whether the selector [data-agent-id="elementId"] matches on the page.
OnPage(page, elementId) ==
  \E i \in 1..Len(page.tags) : page.tags[i] = elementId

\* A step list whose statuses are all pending.
PlanStepsAllPending(steps) ==
  [i \in 1..Len(steps) |->
     [id |-> "step-" \o ToString(i), description |-> steps[i].description,
      status |-> "pending"]]

\* args.steps.map(...) of update_plan
PlanSteps(steps) ==
  [i \in 1..Len(steps) |->
     [id |-> "step-" \o ToString(i), description |-> steps[i].description,
      status |-> IF steps[i].status = "" THEN "pending"
                 ELSE steps[i].status]]

\* x || fallback for an optional number: 0 is falsy.
NumberOr(option, fallback) ==
  IF option = <<>> \/ option[1] = 0 THEN fallback ELSE option[1]

\* update_plan without the fallback to the previous adaptations.
updatePlanDroppingNotes(args, plan) ==
  LET steps == PlanSteps(args.steps[1])
  IN  [currentPlan |->
         <<[goal |-> IF plan = <<>> \/ plan[1].goal = "" THEN "Current task"
                     ELSE plan[1].goal,
            steps |-> steps,
            currentStepIndex |-> NumberOr(args.current_step_index, 0),
            adaptations |->
              IF args.adaptations # <<>> THEN args.adaptations[1] ELSE <<>>,
            completionCriteria |->
              IF args.completion_criteria # <<>>
              THEN args.completion_criteria[1] ELSE <<>>]>>,
       result |-> "Plan updated: " \o ToString(Len(steps))
                  \o " steps, currently on step "
                  \o (IF args.current_step_index = <<>> THEN "NaN"
                      ELSE ToString(args.current_step_index[1] + 1))]

\* case 'update_plan' with args.steps given: the plan it leaves and the
\* summary it returns.
updatePlan(args, plan) ==
  LET steps == PlanSteps(args.steps[1])
  IN  [currentPlan |->
         <<[goal |-> IF plan = <<>> \/ plan[1].goal = "" THEN "Current task"
                     ELSE plan[1].goal,
            steps |-> steps,
            currentStepIndex |-> NumberOr(args.current_step_index, 0),
            adaptations |->
              IF args.adaptations # <<>> THEN args.adaptations[1]
              ELSE IF plan # <<>> THEN plan[1].adaptations ELSE <<>>,
            completionCriteria |->
              IF args.completion_criteria # <<>>
              THEN args.completion_criteria[1] ELSE <<>>]>>,
       result |-> "Plan updated: " \o ToString(Len(steps))
                  \o " steps, currently on step "
                  \o (IF args.current_step_index = <<>> THEN "NaN"
                      ELSE ToString(args.current_step_index[1] + 1))]

\* 'a, button, input, textarea, select, [role="button"], [onclick]'
InteractiveTags == {"a", "button", "input", "textarea", "select"}

\* el.getAttribute(name) is set and includes the value.
AttributeIncludes(attributes, name, value) ==
  \E k \in 1..Len(attributes) :
    attributes[k][1] = name /\ Includes(attributes[k][2], value)

\* The candidates of find_element: the interactive elements of the
\* document, in document order, whose text includes args.text if that is
\* given and whose attribute args.attribute includes args.attributeValue if
\* both are given.
Candidates(page, args) ==
  LET dom == Dom(page.url)
  IN  SelectSeq([i \in 1..Len(dom) |-> i],
                LAMBDA i : /\ dom[i].tag \in InteractiveTags
                           /\ \/ args.text = ""
                              \/ Includes(ToLowerCase(dom[i].text),
                                          ToLowerCase(args.text))
                           /\ \/ ~(args.attribute # ""
                                    /\ args.attributeValue # "")
                              \/ AttributeIncludes(dom[i].attributes,
                                                   args.attribute,
                                                   args.attributeValue))

\* find_element: the first candidate gets a data-agent-id of its own and
\* becomes the only element of currentElements; the ids other elements
\* carry stay on the page.
findElement(page, args, elems) ==
  LET dom == Dom(page.url)
      candidates == Candidates(page, args)
      i == candidates[1]
  IN  IF candidates = <<>>
      THEN [result |-> "No element found. Try different selector/text/attribute or use get_page_content to see all elements.",
            page |-> page, currentElements |-> elems]
      ELSE [result |-> "Found element [" \o TimestampId \o "] " \o dom[i].tag
                       \o " \"" \o dom[i].text \o "\" ("
                       \o ToString(Len(candidates)) \o " total matches)",
            page |-> [page EXCEPT !.tags[i] = TimestampId],
            currentElements |->
              <<[id |-> TimestampId, tag |-> dom[i].tag, text |-> dom[i].text,
                 attributes |-> dom[i].attributes, semanticContext |-> ""]>>]

\* The text of the element page.click('[data-agent-id="elementId"]') acts
\* on: the first element of the document carrying the id, <<>> if none.
ClickTarget(page, elementId) ==
  LET dom == Dom(page.url)
      hits == SelectSeq([i \in 1..Len(dom) |-> i],
                        LAMBDA i : page.tags[i] = elementId)
  IN  IF hits = <<>> THEN <<>> ELSE <<dom[hits[1]].text>>

\* wait without the limit.
WaitMsUncapped(milliseconds) == milliseconds

\* const ms = Math.min(args.milliseconds, 10000)
WaitMs(milliseconds) == Min(milliseconds, WaitLimit)

\* What executeTool(toolName, args) does when there is a current page:
\* whether it throws, the text it returns or throws, and the fields it
\* leaves behind.  ok is the browser's answer to a navigation.
executeTool(toolName, args, ok, elems, pgs, cur, complete, plan) ==
  LET page == pgs[PageOf(pgs, cur)].page
      same == [threw |-> FALSE, result |-> "", waited |-> <<>>, pages |-> pgs,
               currentPageId |-> cur, currentElements |-> elems,
               isTaskComplete |-> complete, currentPlan |-> plan]
  IN  CASE toolName = "navigate" ->
             IF ok
             THEN [same EXCEPT !.result = "Navigated to " \o args.url,
                               !.pages = MapSet(pgs, cur, LoadPage(args.url))]
             ELSE [same EXCEPT !.threw = TRUE,
                               !.result = "page.goto: Timeout 30000ms exceeded"]
        [] toolName = "get_page_content" ->
             LET found == extractSimplifiedDOM(page)
             IN  [same EXCEPT !.result = "URL: " \o page.url \o " Found "
                                 \o ToString(Len(found)) \o " elements",
                              !.pages = MapSet(pgs, cur, TagAll(page)),
                              !.currentElements = found]
        [] toolName = "find_element" ->
             LET found == findElement(page, args, elems)
             IN  [same EXCEPT !.result = found.result,
                              !.pages = MapSet(pgs, cur, found.page),
                              !.currentElements = found.currentElements]
        [] toolName = "click" ->
             IF OnPage(page, args.element_id)
             THEN [same EXCEPT !.result =
                                 "Clicked element " \o args.element_id]
             ELSE [same EXCEPT !.result =
                                 "Failed to click " \o args.element_id]
        [] toolName = "wait" ->
             [same EXCEPT !.result = "Waited "
                                     \o ToString(WaitMs(args.milliseconds))
                                     \o "ms",
                          !.waited = <<WaitMs(args.milliseconds)>>]
        [] toolName = "new_tab" ->
             [same EXCEPT !.result = "Created new tab: " \o createNewTabId(pgs),
                          !.pages = MapSet(pgs, createNewTabId(pgs),
                                           LoadPage(IF args.url = "" THEN BlankUrl
                                                    ELSE args.url))]
        [] toolName = "switch_tab" ->
             IF args.tab_id \in PageIds(pgs)
             THEN [same EXCEPT !.result = "Switched to tab " \o args.tab_id,
                               !.currentPageId = args.tab_id]
             ELSE [same EXCEPT !.threw = TRUE,
                               !.result = "Page " \o args.tab_id \o " not found"]
        [] toolName = "close_tab" ->
             IF args.tab_id \in PageIds(pgs)
             THEN [same EXCEPT !.result = "Closed tab " \o args.tab_id,
                               !.pages = MapDelete(pgs, args.tab_id),
                               !.currentPageId =
                                  CurrentAfterClose(pgs, cur, args.tab_id)]
             ELSE [same EXCEPT !.threw = TRUE,
                               !.result = "Page " \o args.tab_id \o " not found"]
        [] toolName = "update_plan" ->
             IF args.steps = <<>>
             THEN [same EXCEPT !.threw = TRUE,
                               !.result = "Cannot read properties of undefined (reading 'map')"]
             ELSE [same EXCEPT !.result = updatePlan(args, plan).result,
                               !.currentPlan = updatePlan(args, plan).currentPlan]
        [] toolName = "complete_task" ->
             [same EXCEPT !.result = "summary", !.isTaskComplete = TRUE]
        [] OTHER ->
             [same EXCEPT !.threw = TRUE,
                          !.result = "Unknown tool: " \o toolName]

\* executeTool fetching the current page only in the cases that use it.
NeedsPageWhenUsed(toolName) ==
  toolName \notin {"complete_task", "update_plan"}

\* const page = this.browserManager.getCurrentPage() is the first statement
\* of executeTool, whatever the tool.
NeedsPage(toolName) == TRUE

\* The answers the browser can give to the call.
BrowserAnswers(toolName) == IF toolName = "navigate" THEN BOOLEAN ELSE {TRUE}

----------------------------------------------------------------------------
(* BrowserAgent: executeTask *)

\* The while condition with <= for <.
LoopGuardInclusive(complete, iter, maxIterations) ==
  ~complete /\ iter <= maxIterations

\* The condition of the while loop.
LoopGuard(complete, iter, maxIterations) ==
  ~complete /\ iter < maxIterations

\* The for loop walking the tool calls from the last to the first.
ToolCallAtReversed(calls, k) == calls[Len(calls) - k + 1]

\* The tool call the for loop handles at position k.
ToolCallAt(calls, k) == calls[k]

\* An iteration catch block that rethrows.
IterationCatchRethrows(errorMessage) ==
  [rethrows |-> TRUE,
   entry |-> Message("user", "An error occurred: " \o errorMessage
                             \o ". Please try a different approach.",
                     0, <<>>)]

\* An iteration catch block that reports the error in the system role.
IterationCatchAsSystem(errorMessage) ==
  [rethrows |-> FALSE,
   entry |-> Message("system", "An error occurred: " \o errorMessage
                               \o ". Please try a different approach.",
                     0, <<>>)]

\* The catch block of an iteration: the entry it appends; it does not
\* rethrow.
IterationCatch(errorMessage) ==
  [rethrows |-> FALSE,
   entry |-> Message("user", "An error occurred: " \o errorMessage
                             \o ". Please try a different approach.",
                     0, <<>>)]

\* A catch block around executeTool that rethrows.
ToolCatchRethrows(errorMessage) ==
  [rethrows |-> TRUE, breaks |-> FALSE, result |-> "Error: " \o errorMessage]

\* A catch block around executeTool that leaves the for loop.
ToolCatchBreaks(errorMessage) ==
  [rethrows |-> FALSE, breaks |-> TRUE, result |-> "Error: " \o errorMessage]

\* The catch block around executeTool: the result text it leaves; it
\* neither rethrows nor leaves the for loop.
ToolCatch(errorMessage) ==
  [rethrows |-> FALSE, breaks |-> FALSE, result |-> "Error: " \o errorMessage]

\* A task start that keeps the confirmed set.
KeepConfirmed(confirmed) == confirmed

\* confirmedActions after the clear() at the start of a task.
ClearConfirmed(confirmed) == {}

\* A task start that keeps the completion flag.
KeepTaskComplete(complete) == complete

\* this.isTaskComplete = false at the start of a task.
ResetTaskComplete(complete) == FALSE

\* An audit log that records the successful operations only.
addSuccessToHistory(history, item) ==
  IF item.status = "success" THEN Append(history, item) ELSE history

\* AgentVisualizer.addActionToHistory(item)
addActionToHistory(history, item) == Append(history, item)

\* A call whose promise is not awaited: it stays outstanding while
\* executeTask goes on.
NotAwaited(pending, op) == pending

\* await: executeTask goes on when the promise of op has settled.
Awaited(pending, op) == SelectSeq(pending, LAMBDA o : o # op)

\* A call that returns a promise: the operation is outstanding.
Started(pending, op) == Append(pending, op)

\* A model call that returns while its stream goes on.
StreamGoesOn(content) == content

\* chatWithThinkingStream returns after its for-await loop: the stream and
\* its local thinkingContent are gone.
StreamEnded(content) == ""

\* AgentVisualizer.displayThinking(thinking, true): the buffer it leaves.
displayThinking(buffer, thinking) ==
  IF Len(thinking) > Len(buffer) THEN thinking ELSE buffer

\* AgentVisualizer.finishThinking(): the buffer it leaves.
finishThinking(buffer) == ""

\* The local currentThinking of executeTask when the model call returns:
\* onThinkingUpdate assigns it only when the plan visualization is off.
CurrentThinking(showThinkingProcess, showPlanVisualization, content) ==
  IF showThinkingProcess /\ ~showPlanVisualization THEN content ELSE ""

\* What the model call can fail with.
ModelErrors == {"Connection error.", "No response from LLM"}

\* executeTask(t) up to the while loop.
StartTask(t) ==
  /\ pc = "idle"
  /\ taskNo < MaxTasks
  /\ Len(conversationHistory) < MaxHistory
  /\ conversationHistory' =
       Push(conversationHistory, Message("user", t, 0, <<>>))
  /\ currentPlan' =
       IF config.showPlanVisualization
       THEN <<[goal |-> t, steps |-> <<>>, currentStepIndex |-> 0,
               adaptations |-> <<>>, completionCriteria |-> <<>>]>>
       ELSE currentPlan
  /\ isTaskComplete' = ResetTaskComplete(isTaskComplete)
  /\ confirmedActions' = ClearConfirmed(confirmedActions)
  /\ iteration' = 0
  /\ task' = t
  /\ pc' = "loop"
  /\ taskNo' = taskNo + 1
  /\ llmRequests' = 0
  /\ prompts' = <<>>
  /\ dispatched' = <<>>
  /\ gate' = NoGate
  /\ envFailure' = "none"
  /\ outcome' = "running"
  /\ toolCalls' = <<>>
  /\ callIdx' = 0
  /\ UNCHANGED <<outstanding, assessVars, assemblerVars, visualizerVars, thinkingContent, everApproved, config, currentElements, actionHistory, browserVars,
                 nextCallId>>

\* The loop condition holds: iteration++ and the request to the model.
EnterIteration ==
  /\ pc = "loop"
  /\ LoopGuard(isTaskComplete, iteration, config.maxIterations)
  /\ iteration' = iteration + 1
  /\ llmRequests' = llmRequests + 1
  /\ pc' = "chat"
  /\ outstanding' = Started(outstanding, "model")
  /\ UNCHANGED <<assessVars, assemblerVars, visualizerVars, thinkingContent, everApproved, config, conversationHistory, agentVars, browserVars, task,
                 toolCalls, callIdx, nextCallId, taskNo, prompts, dispatched,
                 gate, envFailure, outcome>>

\* The loop condition fails: executeTask returns.
Return ==
  /\ pc = "loop"
  /\ ~LoopGuard(isTaskComplete, iteration, config.maxIterations)
  /\ pc' = "idle"
  /\ outcome' = IF isTaskComplete THEN "completed" ELSE "exhausted"
  /\ UNCHANGED <<outstanding, assessVars, assemblerVars, visualizerVars, thinkingContent, everApproved, config, conversationHistory, agentVars, browserVars, task,
                 iteration, toolCalls, callIdx, nextCallId, taskNo,
                 llmRequests, prompts, dispatched, gate, envFailure>>

\* The iteration's catch block, entered with an error message.
Caught(errorMessage) ==
  LET c == IterationCatch(errorMessage)
  IN  /\ conversationHistory' = Push(conversationHistory, c.entry)
      /\ pc' = IF c.rethrows THEN "idle" ELSE "sleep"
      /\ outcome' = IF c.rethrows THEN "threw" ELSE outcome

\* llmClient.chat throws, or answers without a message.
ChatThrows(errorMessage) ==
  /\ pc = "chat"
  /\ Len(conversationHistory) < MaxHistory
  /\ Caught(errorMessage)
  /\ outstanding' = Awaited(outstanding, "model")
  /\ thinkingContent' = StreamEnded(thinkingContent)
  /\ UNCHANGED <<assessVars, assemblerVars, visualizerVars, everApproved, config, agentVars, browserVars, task, iteration, toolCalls,
                 callIdx, nextCallId, taskNo, llmRequests, prompts,
                 dispatched, gate, envFailure>>

\* llmClient.chat returns a decision with the given tool calls; they get
\* the next correlation ids.
ChatReturns(calls) ==
  /\ pc = "chat"
  /\ Len(conversationHistory) + 1 + Len(calls) <= MaxHistory
  /\ LET withIds == [k \in 1..Len(calls) |->
                       [id |-> nextCallId + k - 1, name |-> calls[k].name,
                        args |-> calls[k].args]]
         pushed == Push(conversationHistory,
                          Message("assistant", "", 0, withIds))
     IN  IF Len(calls) > 0
         THEN /\ conversationHistory' = pushed
              /\ toolCalls' = withIds
              /\ callIdx' = 1
              /\ pc' = "call"
              /\ outcome' = outcome
         ELSE LET c == IterationCatch("Model did not return tool calls as required")
              IN  /\ conversationHistory' = Push(pushed, c.entry)
                  /\ pc' = IF c.rethrows THEN "idle" ELSE "sleep"
                  /\ outcome' = IF c.rethrows THEN "threw" ELSE outcome
                  /\ toolCalls' = <<>>
                  /\ callIdx' = 0
  /\ nextCallId' = nextCallId + Len(calls)
  /\ outstanding' = Awaited(outstanding, "model")
  /\ thinkingContent' = StreamEnded(thinkingContent)
  /\ thinkingBuffer' =
       IF config.showPlanVisualization
          /\ Len(CurrentThinking(config.showThinkingProcess,
                                 config.showPlanVisualization,
                                 thinkingContent)) > 0
       THEN finishThinking(thinkingBuffer)
       ELSE thinkingBuffer
  /\ UNCHANGED <<assessVars, assemblerVars, trackerOp, everApproved, config, agentVars, browserVars, task, iteration, taskNo,
                 llmRequests, prompts, dispatched, gate, envFailure>>

\* The record of the task's first 'No active page'.
EnvFailureAfter(before, complete) ==
  IF before # "none" THEN before
  ELSE IF complete THEN "complete" ELSE "running"

\* The for loop's step after call k has been handled.
Advance(k) ==
  IF k < Len(toolCalls)
  THEN pc' = "call" /\ callIdx' = k + 1
  ELSE pc' = "sleep" /\ callIdx' = k

\* One tool call up to the prompt or the dispatch: JSON.parse of the
\* arguments and, when confirmation is required, shouldConfirm.
GateToolCall ==
  /\ pc = "call"
  /\ LET tc == ToolCallAt(toolCalls, callIdx)
         hasPage == HasCurrentPage(pages, currentPageId)
     IN  IF ~tc.args.parses
         THEN /\ Caught("Unexpected end of JSON input")
              /\ UNCHANGED <<gate, envFailure>>
         ELSE IF config.requireConfirmation /\ ~hasPage
         THEN /\ Caught("No active page")
              /\ envFailure' = EnvFailureAfter(envFailure, isTaskComplete)
              /\ UNCHANGED gate
         ELSE LET assessed == hasPage
                  context == ActionContext(tc.name, tc.args, currentElements,
                                           pages, currentPageId)
                  assessment == Assess(context)
                  key == ActionKey(tc.name, context.elementText,
                                   assessment.category)
                  prompt ==
                    PromptRequired(config.requireConfirmation,
                                   config.requireConfirmation
                                   /\ shouldConfirm(tc.name, tc.args,
                                        currentElements, pages, currentPageId,
                                        confirmedActions))
              IN  /\ gate' = IF assessed
                             THEN [assessed |-> TRUE,
                                   riskLevel |-> assessment.riskLevel,
                                   isDestructive |->
                                     assessment.isDestructive,
                                   key |-> key,
                                   known |-> key \in confirmedActions,
                                   prompted |-> prompt, approved |-> FALSE]
                             ELSE NoGate
                  /\ pc' = IF prompt THEN "confirm" ELSE "exec"
                  /\ UNCHANGED <<conversationHistory, envFailure, outcome>>
  /\ outstanding' = IF pc' = "confirm" THEN Started(outstanding, "prompt")
                    ELSE IF pc' = "exec" THEN Started(outstanding, "dispatch")
                    ELSE outstanding
  /\ UNCHANGED <<assessVars, assemblerVars, visualizerVars, thinkingContent, everApproved, config, agentVars, browserVars, task, iteration, toolCalls,
                 callIdx, nextCallId, taskNo, llmRequests, prompts,
                 dispatched>>

\* confirmAction: the user answers the prompt.
ConfirmAnswer(answer) ==
  /\ pc = "confirm"
  /\ LET tc == ToolCallAt(toolCalls, callIdx)
         key == KeyOf(tc.name, tc.args, currentElements, pages, currentPageId)
     IN  /\ confirmedActions' =
              ConfirmedAfterAnswer(confirmedActions, key, answer)
         /\ prompts' = Append(prompts, [key |-> key, answer |-> answer,
                                        id |-> tc.id])
         /\ gate' = [gate EXCEPT !.approved = answer]
         /\ everApproved' = IF answer THEN everApproved \cup {key}
                             ELSE everApproved
         /\ IF ProceedsAfterAnswer(answer)
            THEN /\ pc' = "exec"
                 /\ UNCHANGED <<conversationHistory, callIdx>>
            ELSE /\ conversationHistory' =
                      Push(conversationHistory,
                             Message("tool", "Action cancelled by user",
                                     tc.id, <<>>))
                 /\ Advance(callIdx)
  /\ outstanding' = IF pc' = "exec"
                    THEN Started(Awaited(outstanding, "prompt"), "dispatch")
                    ELSE Awaited(outstanding, "prompt")
  /\ UNCHANGED <<assessVars, assemblerVars, visualizerVars, thinkingContent, config, currentElements, isTaskComplete, currentPlan,
                 actionHistory, browserVars, task, iteration, toolCalls,
                 nextCallId, taskNo, llmRequests, dispatched, envFailure,
                 outcome>>

\* The dispatch of one tool call: executeTool inside its try block, the
\* tool-result entry and the audit entry.
ExecuteTool(ok) ==
  /\ pc = "exec"
  /\ LET tc == ToolCallAt(toolCalls, callIdx)
         hasPage == HasCurrentPage(pages, currentPageId)
         reached == hasPage \/ ~NeedsPage(tc.name)
         ran == IF reached
                THEN executeTool(tc.name, tc.args, ok, currentElements, pages,
                                 currentPageId, isTaskComplete, currentPlan)
                ELSE [threw |-> TRUE, result |-> "No active page",
                      waited |-> <<>>, pages |-> pages, currentPageId |-> currentPageId,
                      currentElements |-> currentElements,
                      isTaskComplete |-> isTaskComplete,
                      currentPlan |-> currentPlan]
         caught == ToolCatch(ran.result)
         toolSuccess == ~ran.threw
         result == IF ran.threw THEN caught.result ELSE ran.result
     IN  /\ ok \in BrowserAnswers(tc.name)
         /\ pages' = ran.pages
         /\ currentPageId' = ran.currentPageId
         /\ currentElements' = ran.currentElements
         /\ isTaskComplete' = ran.isTaskComplete
         /\ currentPlan' = ran.currentPlan
         /\ envFailure' = IF reached THEN envFailure
                           ELSE EnvFailureAfter(envFailure, isTaskComplete)
         /\ dispatched' =
              Append(dispatched,
                     [id |-> tc.id, name |-> tc.name, iteration |-> iteration,
                      index |-> callIdx, gate |-> gate,
                      afterComplete |-> isTaskComplete,
                      target |-> IF hasPage /\ tc.name = "click"
                                 THEN ClickTarget(
                                        pages[PageOf(pages, currentPageId)].page,
                                        tc.args.element_id)
                                 ELSE <<>>,
                      waited |-> ran.waited,
                      threw |-> ran.threw, result |-> ran.result])
         /\ IF ran.threw /\ caught.rethrows
            THEN /\ pc' = "idle"
                 /\ outcome' = "threw"
                 /\ UNCHANGED <<conversationHistory, actionHistory, callIdx>>
            ELSE /\ conversationHistory' =
                      Push(conversationHistory,
                             Message("tool", result, tc.id, <<>>))
                 /\ actionHistory' =
                      IF config.showPlanVisualization
                         /\ config.showActionHistory
                      THEN addActionToHistory(actionHistory,
                                  [iteration |-> iteration, tool |-> tc.name,
                                   args |-> tc.args, result |-> result,
                                   status |-> IF toolSuccess THEN "success"
                                              ELSE "failed"])
                      ELSE actionHistory
                 /\ Advance(IF ran.threw /\ caught.breaks
                            THEN Len(toolCalls) ELSE callIdx)
                 /\ outcome' = outcome
  /\ outstanding' = Awaited(outstanding, "dispatch")
  /\ UNCHANGED <<assessVars, assemblerVars, visualizerVars, thinkingContent, everApproved, config, confirmedActions, task,
                 iteration, toolCalls, nextCallId, taskNo, llmRequests,
                 prompts, gate>>

\* The 500 ms delay that ends an iteration.
Throttle ==
  /\ pc = "sleep"
  /\ pc' = "loop"
  /\ UNCHANGED <<outstanding, assessVars, assemblerVars, visualizerVars, thinkingContent, everApproved, config, conversationHistory, agentVars, browserVars, task,
                 iteration, toolCalls, callIdx, nextCallId, taskNo,
                 llmRequests, prompts, dispatched, gate, envFailure, outcome>>

Next ==
  \/ \E t \in Tasks : StartTask(t)
  \/ EnterIteration
  \/ Return
  \/ \E e \in ModelErrors : ChatThrows(e)
  \/ \E calls \in SeqsUpTo(CoreCalls, MaxCalls) : ChatReturns(calls)
  \/ GateToolCall
  \/ \E answer \in BOOLEAN : ConfirmAnswer(answer)
  \/ \E ok \in BOOLEAN : ExecuteTool(ok)
  \/ Throttle

Spec == Init /\ [][Next]_vars

----------------------------------------------------------------------------
(* BrowserAgent with decisions that plan *)

InitPlan ==
  /\ AgentInitFrom(PlanOptionSamples)
  /\ assessInput = NoContext
  /\ assessOutput = <<>>
  /\ trackerOp = "none"
  /\ thinkingBuffer = ""
  /\ thinkingContent = ""
  /\ outstanding = <<>>
  /\ deltas = <<>>
  /\ streamedToolCalls = <<>>

NextPlan ==
  \/ \E t \in Tasks : StartTask(t)
  \/ EnterIteration
  \/ Return
  \/ \E calls \in SeqsUpTo(PlanCalls, 1) : ChatReturns(calls)
  \/ GateToolCall
  \/ \E answer \in BOOLEAN : ConfirmAnswer(answer)
  \/ \E ok \in BOOLEAN : ExecuteTool(ok)
  \/ Throttle

SpecPlan == InitPlan /\ [][NextPlan]_vars

----------------------------------------------------------------------------
(* BrowserAgent under every display configuration *)

DisplayOptionSamples ==
  [requireConfirmation : {"unset", "false"},
   maxIterations : {MaxIter},
   showPlanVisualization : {"unset", "false"},
   showActionHistory : {"unset", "false"},
   enableThinking : {"unset"},
   showThinkingProcess : {"unset"}]

\* The tool calls of a decision that reads the page.
ReadCalls ==
  {[name |-> "get_page_content", args |-> NoArgs],
   [name |-> "fly", args |-> NoArgs],
   [name |-> "complete_task", args |-> NoArgs]}

InitDisplay ==
  /\ AgentInitFrom(DisplayOptionSamples)
  /\ assessInput = NoContext
  /\ assessOutput = <<>>
  /\ trackerOp = "none"
  /\ thinkingBuffer = ""
  /\ thinkingContent = ""
  /\ outstanding = <<>>
  /\ deltas = <<>>
  /\ streamedToolCalls = <<>>

NextDisplay ==
  \/ \E t \in Tasks : StartTask(t)
  \/ EnterIteration
  \/ Return
  \/ \E e \in ModelErrors : ChatThrows(e)
  \/ \E calls \in SeqsUpTo(ReadCalls, 1) : ChatReturns(calls)
  \/ GateToolCall
  \/ \E answer \in BOOLEAN : ConfirmAnswer(answer)
  \/ \E ok \in BOOLEAN : ExecuteTool(ok)
  \/ Throttle

SpecDisplay == InitDisplay /\ [][NextDisplay]_vars

----------------------------------------------------------------------------
(* BrowserAgent with a model that streams its reasoning *)

\* Reasoning deltas in one model call.
MaxChunks == 2

ReasoningDeltas == {"hm"}

StreamOptionSamples ==
  [requireConfirmation : {"unset"},
   maxIterations : {MaxIter},
   showPlanVisualization : {"unset", "false"},
   showActionHistory : {"unset"},
   enableThinking : {"unset", "false"},
   showThinkingProcess : {"unset", "false"}]

InitStream ==
  /\ AgentInitFrom(StreamOptionSamples)
  /\ assessInput = NoContext
  /\ assessOutput = <<>>
  /\ trackerOp = "none"
  /\ thinkingBuffer = ""
  /\ thinkingContent = ""
  /\ outstanding = <<>>
  /\ deltas = <<>>
  /\ streamedToolCalls = <<>>

\* One chunk of the stream with a reasoning delta: thinkingContent grows
\* and onThinkingUpdate shows it.
ThinkingUpdate(delta) ==
  /\ pc = "chat"
  /\ config.enableThinking /\ config.showThinkingProcess
  /\ Len(thinkingContent) < MaxChunks * Len(delta)
  /\ thinkingContent' = thinkingContent \o delta
  /\ thinkingBuffer' =
       IF config.showPlanVisualization
       THEN displayThinking(thinkingBuffer, thinkingContent')
       ELSE thinkingBuffer
  /\ UNCHANGED <<outstanding, assessVars, assemblerVars, trackerOp, everApproved, config,
                 conversationHistory, agentVars, browserVars, pc, task,
                 iteration, toolCalls, callIdx, nextCallId, taskNo,
                 llmRequests, prompts, dispatched, gate, envFailure, outcome>>

NextStream ==
  \/ \E t \in Tasks : StartTask(t)
  \/ EnterIteration
  \/ Return
  \/ \E delta \in ReasoningDeltas : ThinkingUpdate(delta)
  \/ \E e \in ModelErrors : ChatThrows(e)
  \/ \E calls \in SeqsUpTo(ReadCalls, 1) : ChatReturns(calls)
  \/ GateToolCall
  \/ \E answer \in BOOLEAN : ConfirmAnswer(answer)
  \/ \E ok \in BOOLEAN : ExecuteTool(ok)
  \/ Throttle

SpecStream == InitStream /\ [][NextStream]_vars

----------------------------------------------------------------------------
(* AgentVisualizer: the plan it tracks *)

TaskStepStatus == {"pending", "in_progress", "completed", "failed", "skipped"}

StepIds == {"step-1", "step-2", "step-3"}

\* AgentVisualizer.updateStepStatus(stepId, status) on the plan it holds.
updateStepStatus(plan, stepId, status) ==
  IF plan = <<>> THEN plan
  ELSE <<[plan[1] EXCEPT !.steps =
            [i \in 1..Len(plan[1].steps) |->
               IF plan[1].steps[i].id = stepId
               THEN [plan[1].steps[i] EXCEPT !.status = status]
               ELSE plan[1].steps[i]]]>>

InitTracker ==
  /\ AgentInit
  /\ config.requireConfirmation
  /\ config.maxIterations = 1
  /\ pages[1].page.url = HomeUrl
  /\ assessInput = NoContext
  /\ assessOutput = <<>>
  /\ trackerOp = "none"
  /\ thinkingBuffer = ""
  /\ thinkingContent = ""
  /\ outstanding = <<>>
  /\ deltas = <<>>
  /\ streamedToolCalls = <<>>

\* visualizer.setPlan(plan) with the plan update_plan builds.
SetPlan(args) ==
  /\ args.steps # <<>>
  /\ currentPlan' = updatePlan(args, currentPlan).currentPlan
  /\ trackerOp' = "setPlan"
  /\ UNCHANGED <<outstanding, assessVars, assemblerVars, streamVars, everApproved, config,
                 conversationHistory, currentElements, isTaskComplete,
                 confirmedActions, actionHistory, browserVars, pc, task,
                 iteration, toolCalls, callIdx, nextCallId, taskNo,
                 llmRequests, prompts, dispatched, gate, envFailure, outcome>>

\* visualizer.updateStepStatus(stepId, status)
UpdateStepStatus(stepId, status) ==
  /\ currentPlan' = updateStepStatus(currentPlan, stepId, status)
  /\ trackerOp' = "updateStepStatus"
  /\ UNCHANGED <<outstanding, assessVars, assemblerVars, streamVars, everApproved, config,
                 conversationHistory, currentElements, isTaskComplete,
                 confirmedActions, actionHistory, browserVars, pc, task,
                 iteration, toolCalls, callIdx, nextCallId, taskNo,
                 llmRequests, prompts, dispatched, gate, envFailure, outcome>>

NextTracker ==
  \/ \E c \in PlanCalls : c.name = "update_plan" /\ SetPlan(c.args)
  \/ \E stepId \in StepIds, status \in TaskStepStatus :
       UpdateStepStatus(stepId, status)

SpecTracker == InitTracker /\ [][NextTracker]_vars

----------------------------------------------------------------------------
(* BrowserAgent with a model that looks for elements and clicks them *)

FindOptionSamples ==
  [requireConfirmation : {"unset"},
   maxIterations : {MaxIter},
   showPlanVisualization : {"unset"},
   showActionHistory : {"unset"},
   enableThinking : {"unset"},
   showThinkingProcess : {"unset"}]

InitFind ==
  /\ AgentInitFrom(FindOptionSamples)
  /\ assessInput = NoContext
  /\ assessOutput = <<>>
  /\ trackerOp = "none"
  /\ thinkingBuffer = ""
  /\ thinkingContent = ""
  /\ outstanding = <<>>
  /\ deltas = <<>>
  /\ streamedToolCalls = <<>>

NextFind ==
  \/ \E t \in Tasks : StartTask(t)
  \/ EnterIteration
  \/ Return
  \/ \E calls \in SeqsUpTo(FindCalls, MaxCalls) : ChatReturns(calls)
  \/ GateToolCall
  \/ \E answer \in BOOLEAN : ConfirmAnswer(answer)
  \/ \E ok \in BOOLEAN : ExecuteTool(ok)
  \/ Throttle

SpecFind == InitFind /\ [][NextFind]_vars

----------------------------------------------------------------------------
(* BrowserAgent with a model that opens, switches and closes tabs *)

TabOptionSamples ==
  [requireConfirmation : {"unset", "false"},
   maxIterations : {MaxIter},
   showPlanVisualization : {"unset"},
   showActionHistory : {"unset"},
   enableThinking : {"unset"},
   showThinkingProcess : {"unset"}]

InitTabs ==
  /\ AgentInitFrom(TabOptionSamples)
  /\ assessInput = NoContext
  /\ assessOutput = <<>>
  /\ trackerOp = "none"
  /\ thinkingBuffer = ""
  /\ thinkingContent = ""
  /\ outstanding = <<>>
  /\ deltas = <<>>
  /\ streamedToolCalls = <<>>

NextTabs ==
  \/ \E t \in Tasks : StartTask(t)
  \/ EnterIteration
  \/ Return
  \/ \E calls \in SeqsUpTo(TabCalls, MaxCalls) : ChatReturns(calls)
  \/ GateToolCall
  \/ \E answer \in BOOLEAN : ConfirmAnswer(answer)
  \/ \E ok \in BOOLEAN : ExecuteTool(ok)
  \/ Throttle

SpecTabs == InitTabs /\ [][NextTabs]_vars

----------------------------------------------------------------------------
(* BrowserAgent with a model that looks for elements by attribute *)

InitAttribute ==
  /\ AgentInitFrom(FindOptionSamples)
  /\ assessInput = NoContext
  /\ assessOutput = <<>>
  /\ trackerOp = "none"
  /\ thinkingBuffer = ""
  /\ thinkingContent = ""
  /\ outstanding = <<>>
  /\ deltas = <<>>
  /\ streamedToolCalls = <<>>

NextAttribute ==
  \/ \E t \in Tasks : StartTask(t)
  \/ EnterIteration
  \/ Return
  \/ \E calls \in SeqsUpTo(AttributeCalls, 1) : ChatReturns(calls)
  \/ GateToolCall
  \/ \E answer \in BOOLEAN : ConfirmAnswer(answer)
  \/ \E ok \in BOOLEAN : ExecuteTool(ok)
  \/ Throttle

SpecAttribute == InitAttribute /\ [][NextAttribute]_vars

----------------------------------------------------------------------------
(* BrowserAgent with a model that waits *)

InitWait ==
  /\ AgentInitFrom(FindOptionSamples)
  /\ assessInput = NoContext
  /\ assessOutput = <<>>
  /\ trackerOp = "none"
  /\ thinkingBuffer = ""
  /\ thinkingContent = ""
  /\ outstanding = <<>>
  /\ deltas = <<>>
  /\ streamedToolCalls = <<>>

NextWait ==
  \/ \E t \in Tasks : StartTask(t)
  \/ EnterIteration
  \/ Return
  \/ \E calls \in SeqsUpTo(WaitCalls, 1) : ChatReturns(calls)
  \/ GateToolCall
  \/ \E answer \in BOOLEAN : ConfirmAnswer(answer)
  \/ \E ok \in BOOLEAN : ExecuteTool(ok)
  \/ Throttle

SpecWait == InitWait /\ [][NextWait]_vars

----------------------------------------------------------------------------
(* LLMClient: the tool calls chatWithThinkingStream assembles *)

\* Tool-call deltas in one stream.
MaxDeltas == 3

\* toolCall.index of a delta: <<>> when the chunk leaves it out.
DeltaIndexSamples == {<<>>, <<0>>, <<1>>}

\* toolCall.index ?? 0
IndexOfDelta(d) == IF d.index = <<>> THEN 0 ELSE d.index[1]

\* The deltas of a stream: the one that opens a tool call with its id and
\* name, with or without a first fragment of the arguments, the ones that
\* continue the arguments, and one that brings an id after the first
\* fragment.  "" stands for a property the chunk leaves out.
DeltaSamples ==
  UNION {{[index |-> ix, id |-> "call_" \o ToString(IndexOfDelta([index |-> ix])),
           name |-> IF ix = <<1>> THEN "wait" ELSE "click", arguments |-> ""],
          [index |-> ix, id |-> "call_" \o ToString(IndexOfDelta([index |-> ix])),
           name |-> IF ix = <<1>> THEN "wait" ELSE "click", arguments |-> "{"],
          [index |-> ix, id |-> "", name |-> "", arguments |-> "{"],
          [index |-> ix, id |-> "", name |-> "", arguments |-> "}"],
          [index |-> ix, id |-> "call_late", name |-> "", arguments |-> "}"]} :
         ix \in DeltaIndexSamples}

Max(a, b) == IF a > b THEN a ELSE b

\* The body of the loop over delta.tool_calls: the array toolCalls after one
\* tool-call delta.  The array is a sequence whose position k is the index
\* k - 1; <<>> is a slot that was never assigned.
applyDelta(calls, d) ==
  LET index == IndexOfDelta(d)
      padded == [k \in 1..Max(Len(calls), index + 1) |->
                   IF k <= Len(calls) THEN calls[k] ELSE <<>>]
      opened == IF padded[index + 1] = <<>>
                THEN [id |-> d.id, name |-> "", arguments |-> ""]
                ELSE padded[index + 1][1]
      named == IF d.name # "" THEN [opened EXCEPT !.name = d.name] ELSE opened
      filled == IF d.arguments # ""
                THEN [named EXCEPT !.arguments = @ \o d.arguments]
                ELSE named
  IN  [padded EXCEPT ![index + 1] = <<filled>>]

InitAssemble ==
  /\ AgentInit
  /\ config.requireConfirmation
  /\ config.maxIterations = 1
  /\ pages[1].page.url = HomeUrl
  /\ assessInput = NoContext
  /\ assessOutput = <<>>
  /\ trackerOp = "none"
  /\ thinkingBuffer = ""
  /\ thinkingContent = ""
  /\ outstanding = <<>>
  /\ deltas = <<>>
  /\ streamedToolCalls = <<>>

\* One tool-call delta of the stream.
ToolCallDelta(d) ==
  /\ Len(deltas) < MaxDeltas
  /\ deltas' = Append(deltas, d)
  /\ streamedToolCalls' = applyDelta(streamedToolCalls, d)
  /\ UNCHANGED <<outstanding, assessVars, visualizerVars, thinkingContent, everApproved, config, conversationHistory,
                 agentVars, browserVars, pc, task, iteration, toolCalls,
                 callIdx, nextCallId, taskNo, llmRequests, prompts,
                 dispatched, gate, envFailure, outcome>>

NextAssemble == \E d \in DeltaSamples : ToolCallDelta(d)

SpecAssemble == InitAssemble /\ [][NextAssemble]_vars

----------------------------------------------------------------------------
(* SecurityLayer.assessAction on its own *)

TextSamples ==
  {"", "About", "Complete Purchase", "BUY NOW", "^10~11~12~13~14~15",
   "Comprar", "Jetzt kaufen", "Acheter", "Cancel order", "Delete",
   "Submit", "Log out"}

AttributeSamples ==
  {<<>>,
   <<<<"type", "submit">>>>,
   <<<<"type", "submit">>, <<"name", "payment">>>>,
   <<<<"type", "submit">>, <<"class", "buy-btn">>>>,
   <<<<"role", "button">>, <<"id", "remove-item">>>>,
   <<<<"type", "password">>>>,
   <<<<"type", "password">>, <<"role", "button">>, <<"id", "pay-pin">>>>,
   <<<<"name", "cvv">>>>,
   <<<<"type", "text">>, <<"name", "email">>>>}

UrlSamples ==
  {"", HomeUrl, CartUrl, "https://shop.example/Checkout"}

SemanticSamples ==
  {"", "in navigation", "in Payment form", "in cart", "in settings",
   "near delete"}

\* The contexts assessAction is given: an element with its text, attributes
\* and semantic context, or no element.
ContextSamples ==
  [action : {"click", "type_text"}, hasElement : {TRUE},
   elementText : TextSamples, elementAttributes : AttributeSamples,
   pageUrl : UrlSamples, semanticContext : SemanticSamples]
  \cup
  [action : {"click", "type_text"}, hasElement : {FALSE},
   elementText : {""}, elementAttributes : {<<>>},
   pageUrl : UrlSamples, semanticContext : {""}]

InitAssess ==
  /\ AgentInit
  /\ config.requireConfirmation
  /\ config.maxIterations = 1
  /\ pages[1].page.url = HomeUrl
  /\ assessInput \in ContextSamples
  /\ assessOutput = <<>>
  /\ trackerOp = "none"
  /\ thinkingBuffer = ""
  /\ thinkingContent = ""
  /\ outstanding = <<>>
  /\ deltas = <<>>
  /\ streamedToolCalls = <<>>

\* One call of SecurityLayer.assessAction(context).
AssessAction ==
  /\ assessOutput = <<>>
  /\ assessOutput' = <<assessAction(assessInput)>>
  /\ UNCHANGED <<outstanding, assessInput, assemblerVars, visualizerVars, thinkingContent, everApproved, config, conversationHistory,
                 agentVars, browserVars, pc, task, iteration, toolCalls,
                 callIdx, nextCallId, taskNo, llmRequests, prompts,
                 dispatched, gate, envFailure, outcome>>

NextAssess == AssessAction

SpecAssess == InitAssess /\ [][NextAssess]_vars

----------------------------------------------------------------------------
(* Properties *)

Indices(seq) == 1..Len(seq)

\* The keys the user approved in the current task.
ApprovedKeys == {prompts[i].key : i \in {j \in Indices(prompts) : prompts[j].answer}}

IsCorrective(entry) ==
  /\ entry.role = "user"
  /\ Includes(entry.content, "An error occurred: ")

\* C1: a task makes at most maxIterations iterations and model requests,
\* failed iterations included, and a task that returns without complete_task
\* has used exactly maxIterations iterations and is reported unresolved.
ThmC1_IterationCap ==
  /\ iteration <= config.maxIterations
  /\ llmRequests <= config.maxIterations
  /\ (pc = "idle" /\ taskNo > 0 /\ ~isTaskComplete)
       => (iteration = config.maxIterations /\ outcome = "exhausted")

WitC1_ExhaustedAfterErrors ==
  /\ pc = "idle"
  /\ outcome = "exhausted"
  /\ ~isTaskComplete
  /\ llmRequests = config.maxIterations
  /\ config.maxIterations = MaxIter
  /\ IsCorrective(conversationHistory[Len(conversationHistory)])

\* C2: with confirmation required, a call assessed medium, high or critical
\* whose key is not in the confirmed set is dispatched only after an approved
\* prompt; a denied call is never dispatched and is answered by the
\* tool-result 'Action cancelled by user' under its correlation id.
ThmC2_DispatchOnlyAfterApproval ==
  /\ \A i \in Indices(dispatched) :
       LET d == dispatched[i]
       IN  (/\ config.requireConfirmation
            /\ d.gate.riskLevel \in {"medium", "high", "critical"}
            /\ ~d.gate.known)
           => \E j \in Indices(prompts) :
                prompts[j].id = d.id /\ prompts[j].answer
  /\ \A j \in Indices(prompts) :
       ~prompts[j].answer =>
         /\ \A i \in Indices(dispatched) : dispatched[i].id # prompts[j].id
         /\ \E k \in Indices(conversationHistory) :
              conversationHistory[k] =
                Message("tool", "Action cancelled by user", prompts[j].id, <<>>)

WitC2_ApprovedAndDenied ==
  /\ \E i \in Indices(dispatched) :
       /\ dispatched[i].gate.riskLevel = "critical"
       /\ dispatched[i].gate.approved
       /\ dispatched[i].name = "click"
  /\ \E j \in Indices(prompts) : ~prompts[j].answer

ThmC4_ApprovedKeysOnly ==
  /\ confirmedActions = ApprovedKeys
  /\ pc = "confirm" => gate.key \notin ApprovedKeys
  /\ \A i \in Indices(dispatched) :
       LET d == dispatched[i]
       IN  (\E j \in Indices(prompts) :
              /\ prompts[j].answer
              /\ prompts[j].key = d.gate.key
              /\ prompts[j].id < d.id)
           => (d.gate.assessed /\ ~d.gate.prompted)

WitC4_DeniedThenPreapproved ==
  /\ \E j \in Indices(prompts) : ~prompts[j].answer
  /\ \E i \in Indices(dispatched) :
       dispatched[i].gate.known /\ ~dispatched[i].gate.prompted

\* C5: the confirmed set is empty when a task enters its loop, and a call is
\* treated as pre-approved only for a key approved in the same task.
ThmC5_ConfirmedScopedToTask ==
  /\ (pc = "loop" /\ iteration = 0) => confirmedActions = {}
  /\ \A key \in confirmedActions :
       \E j \in Indices(prompts) : prompts[j].key = key /\ prompts[j].answer
  /\ gate.known => gate.key \in ApprovedKeys

\* A task is prompted for a key that was approved in an earlier task only.
WitC5_PromptedAgainInLaterTask ==
  /\ taskNo = 2
  /\ pc = "confirm"
  /\ prompts = <<>>
  /\ gate.key \in everApproved

\* C6: a call assessed low is never presented for confirmation and goes
\* straight to dispatch, and without requireConfirmation nothing is
\* presented at all.
ThmC6_LowNeverPrompted ==
  /\ pc = "confirm" =>
       (config.requireConfirmation /\ gate.assessed /\ gate.riskLevel # "low")
  /\ (pc \in {"confirm", "exec"} /\ gate.riskLevel = "low") =>
       (pc = "exec" /\ ~gate.prompted)
  /\ ~config.requireConfirmation => prompts = <<>>
  /\ \A i \in Indices(dispatched) :
       dispatched[i].gate.riskLevel = "low" => ~dispatched[i].gate.prompted

\* The link under "Your cart" fires the low semantic-context signal only.
WitC6_LowSignalDispatched ==
  /\ config.requireConfirmation
  /\ \E i \in Indices(dispatched) :
       /\ dispatched[i].gate.assessed
       /\ dispatched[i].gate.riskLevel = "low"
       /\ dispatched[i].gate.key = "click:About:financial"
       /\ ~dispatched[i].threw

\* C7 as stated: once 'No active page' has been raised the task has been
\* aborted and the failure reported to the caller of executeTask.
CexC7_EnvFailureIsFatal ==
  envFailure # "none" => (pc = "idle" /\ outcome = "threw")

\* C7 as amended: 'No active page' is caught like any other failure and
\* leaves an entry in the conversation; it is never reported to the caller,
\* and a task that was not complete when it was raised never completes and
\* ends only by reaching the iteration cap, unresolved.
ThmC7_EnvFailureIsCaught ==
  /\ envFailure # "none" =>
       /\ outcome # "threw"
       /\ \E k \in Indices(conversationHistory) :
            Includes(conversationHistory[k].content, "No active page")
  /\ envFailure = "running" =>
       /\ ~isTaskComplete
       /\ pc = "idle" =>
            (outcome = "exhausted" /\ iteration = config.maxIterations)

WitC7_ExhaustedAfterEnvFailure ==
  /\ envFailure = "running"
  /\ pc = "idle"
  /\ outcome = "exhausted"
  /\ iteration = MaxIter

\* C8: a failed model call or dispatch leaves an entry in the conversation
\* and the loop goes on; executeTask returns only at the iteration cap or
\* after complete_task was dispatched.
InvC8 ==
  /\ (pc = "idle" /\ taskNo > 0) =>
       /\ outcome \in {"completed", "exhausted"}
       /\ isTaskComplete \/ iteration = config.maxIterations
  /\ isTaskComplete =>
       \E i \in Indices(dispatched) :
         dispatched[i].name = "complete_task" /\ ~dispatched[i].threw
  /\ \A i \in Indices(dispatched) :
       dispatched[i].threw =>
         \E k \in Indices(conversationHistory) :
           conversationHistory[k] =
             Message("tool", "Error: " \o dispatched[i].result,
                     dispatched[i].id, <<>>)

ThmC8_FailuresNeverEndTheLoop ==
  /\ []InvC8
  /\ [][(pc = "chat" /\ pc' \notin {"chat", "call"}) =>
          /\ pc' = "sleep"
          /\ IsCorrective(conversationHistory'[Len(conversationHistory')])
          /\ Len(conversationHistory') > Len(conversationHistory)]_vars
  /\ [][(pc = "exec" /\ pc' # "exec") => pc' \in {"call", "sleep"}]_vars

WitC8_SecondIterationAfterFailures ==
  /\ iteration = 2
  /\ pc = "sleep"
  /\ \E i \in Indices(dispatched) : dispatched[i].threw
  /\ conversationHistory[Len(conversationHistory)].content =
       "An error occurred: Connection error.. Please try a different approach."

\* C9 as stated: once complete_task has been dispatched, no operation of the
\* task is dispatched and no model decision is requested.
CexC9_NothingAfterComplete ==
  /\ \A i \in Indices(dispatched) : ~dispatched[i].afterComplete
  /\ pc = "chat" => ~isTaskComplete

\* C10: the calls of a decision are gated and dispatched in the order
\* listed, and the tool-result entries that follow an assistant entry answer
\* its calls in that order.
ThmC10_ListedOrder ==
  /\ \A i, j \in Indices(dispatched) :
       i < j => dispatched[i].id < dispatched[j].id
  /\ \A i, j \in Indices(prompts) : i < j => prompts[i].id < prompts[j].id
  /\ \A i \in Indices(dispatched) :
       \E a \in Indices(conversationHistory) :
         LET listed == conversationHistory[a].tool_calls
         IN  /\ conversationHistory[a].role = "assistant"
             /\ dispatched[i].index <= Len(listed)
             /\ listed[dispatched[i].index].id = dispatched[i].id
  /\ \A a \in Indices(conversationHistory) :
       conversationHistory[a].role = "assistant" =>
         \A k \in 1..(Len(conversationHistory) - a) :
           (\A m \in 1..k : conversationHistory[a + m].role = "tool") =>
             /\ k <= Len(conversationHistory[a].tool_calls)
             /\ conversationHistory[a + k].tool_call_id =
                  conversationHistory[a].tool_calls[k].id

WitC10_TwoCallsAnswered ==
  \E a \in Indices(conversationHistory) :
    /\ Len(conversationHistory[a].tool_calls) = 2
    /\ Len(conversationHistory) >= a + 2
    /\ conversationHistory[a + 1].content = "Action cancelled by user"
    /\ conversationHistory[a + 2].role = "tool"
    /\ \E i \in Indices(dispatched) :
         dispatched[i].id = conversationHistory[a + 2].tool_call_id

\* C11: across the iterations and tasks of one agent the conversation only
\* grows: every step leaves the entries it had in place, unchanged.
ThmC11_ConversationAppendOnly ==
  [][/\ Len(conversationHistory') >= Len(conversationHistory)
     /\ SubSeq(conversationHistory', 1, Len(conversationHistory))
          = conversationHistory]_vars

\* The second task runs with the first task's entries still in place.
WitC11_SecondTaskKeepsFirst ==
  /\ taskNo = 2
  /\ pc = "sleep"
  /\ Len(conversationHistory) = MaxHistory
  /\ conversationHistory[1].role = "system"
  /\ conversationHistory[2].role = "user"
  /\ conversationHistory[3].role = "assistant"

\* The entry the loop appends after a decision without tool calls.
NoToolCallsEntry ==
  Message("user",
          "An error occurred: Model did not return tool calls as required. Please try a different approach.",
          0, <<>>)

IsEmptyDecision(entry) == entry.role = "assistant" /\ entry.tool_calls = <<>>

InvC12 ==
  /\ \A a \in Indices(conversationHistory) :
       IsEmptyDecision(conversationHistory[a])
         => /\ a < Len(conversationHistory)
            /\ conversationHistory[a + 1] = NoToolCallsEntry
  /\ (pc \in {"sleep", "loop"} /\ iteration > 0
        /\ conversationHistory[Len(conversationHistory)] = NoToolCallsEntry)
       => \A i \in Indices(dispatched) : dispatched[i].iteration # iteration

\* C12: a decision without tool calls is followed in the conversation by the
\* corrective user-role message; the task does not end with it but goes on
\* to the throttle before the next iteration, the iteration stays counted,
\* and nothing is dispatched in it.
ThmC12_EmptyDecisionIsCorrected ==
  /\ []InvC12
  /\ [][(pc = "chat" /\ Len(conversationHistory') = Len(conversationHistory) + 2
           /\ IsEmptyDecision(conversationHistory'[Len(conversationHistory) + 1]))
          => /\ conversationHistory'[Len(conversationHistory') ] = NoToolCallsEntry
             /\ pc' = "sleep"
             /\ outcome' = outcome
             /\ iteration' = iteration
             /\ iteration >= 1
             /\ llmRequests' = llmRequests
             /\ dispatched' = dispatched]_vars
  /\ [][(pc = "sleep" /\ conversationHistory[Len(conversationHistory)] = NoToolCallsEntry)
          => pc' = "loop"]_vars

\* A second iteration has begun after a first one whose decision had no
\* tool calls.
WitC12_IterationAfterEmptyDecision ==
  /\ pc = "chat"
  /\ iteration = 2
  /\ llmRequests = 2
  /\ dispatched = <<>>
  /\ conversationHistory[Len(conversationHistory)] = NoToolCallsEntry
  /\ IsEmptyDecision(conversationHistory[Len(conversationHistory) - 1])

\* The call has been dispatched, or its own gate stopped it: its arguments
\* do not parse, the gate found no active page, or the user denied it.
GatedAndSettled(tc) ==
  \/ \E k \in Indices(dispatched) : dispatched[k].id = tc.id
  \/ ~tc.args.parses
  \/ config.requireConfirmation /\ ~HasCurrentPage(pages, currentPageId)
  \/ \E p \in Indices(prompts) : prompts[p].id = tc.id /\ ~prompts[p].answer

InvC13 ==
  \A i \in Indices(dispatched) :
    LET d == dispatched[i]
        j == d.index + 1
    IN  (d.threw /\ d.iteration = iteration /\ j <= Len(toolCalls)
           /\ toolCalls[d.index].id = d.id)
          => /\ callIdx >= j
             /\ (callIdx > j \/ pc \in {"sleep", "loop", "idle"})
                  => GatedAndSettled(toolCalls[j])
             /\ (pc \in {"sleep", "loop", "idle"}
                   /\ ~config.requireConfirmation
                   /\ \A m \in j..Len(toolCalls) : toolCalls[m].args.parses)
                  => \A m \in j..Len(toolCalls) :
                       \E k \in Indices(dispatched) :
                         dispatched[k].id = toolCalls[m].id

RiskOf(a) == RISK_LEVEL_ORDER[a.riskLevel]

\* C14: the returned risk level is the maximum over the signals that fire
\* (low when none fires), and the returned reason and category are those of
\* the first signal, in the order text, attributes, URL, semantic context,
\* type-specific, that has this maximum.
ThmC14_MaxRiskFirstWins ==
  assessOutput # <<>> =>
    LET fired == FiredSignals(assessInput)
        out == assessOutput[1]
    IN  IF fired = <<>> THEN out.riskLevel = "low"
        ELSE LET top == CHOOSE i \in Indices(fired) :
                          /\ \A j \in Indices(fired) :
                               RiskOf(fired[j]) <= RiskOf(fired[i])
                          /\ \A j \in 1..(i - 1) :
                               RiskOf(fired[j]) < RiskOf(fired[i])
             IN  /\ out.riskLevel = fired[top].riskLevel
                 /\ out.reason = fired[top].reason
                 /\ out.category = fired[top].category

\* A signal of lower risk fires first and two later signals with different
\* reasons share the maximum.
WitC14_TieBehindLowerSignal ==
  /\ assessOutput # <<>>
  /\ LET fired == FiredSignals(assessInput)
     IN  \E i, j, k \in Indices(fired) :
           /\ i < j /\ j < k
           /\ RiskOf(fired[i]) < RiskOf(fired[j])
           /\ RiskOf(fired[j]) = RiskOf(fired[k])
           /\ \A m \in Indices(fired) : RiskOf(fired[m]) <= RiskOf(fired[j])
           /\ fired[j].reason # fired[k].reason
           /\ assessOutput[1].reason = fired[j].reason

\* The keywords of the financial category, all languages.
FinancialKeywords ==
  Flatten([l \in 1..Len(DESTRUCTIVE_KEYWORDS[1].languages) |->
             DESTRUCTIVE_KEYWORDS[1].languages[l].keywords])

ContainsFinancialKeyword(text) ==
  \E k \in Indices(FinancialKeywords) :
    Includes(ToLowerCase(text), FinancialKeywords[k])

\* C15: an element text that contains a financial keyword of any of the five
\* languages, in any letter case, is assessed financial and destructive,
\* whatever the attributes, URL, semantic context and operation are.
ThmC15_FinancialTextIsFinancial ==
  (assessOutput # <<>> /\ ContainsFinancialKeyword(assessInput.elementText))
    => /\ assessOutput[1].category = "financial"
       /\ assessOutput[1].isDestructive

\* A Russian financial keyword with a capital letter, on a submit control
\* with a destructive-intent attribute and in a data-loss context.
WitC15_RussianKeywordAmongOtherSignals ==
  /\ assessOutput # <<>>
  /\ assessInput.elementText = "^10~11~12~13~14~15"
  /\ assessInput.elementAttributes = <<<<"role", "button">>, <<"id", "remove-item">>>>
  /\ assessInput.semanticContext = "near delete"
  /\ assessInput.action = "type_text"
  /\ assessOutput[1].category = "financial"

SomeSignalFires(context) ==
  \/ /\ context.elementText # ""
     /\ checkTextForDestructiveKeywords(context.elementText) # <<>>
  \/ /\ context.hasElement
     /\ checkAttributesForDestructiveIndicators(context.elementAttributes) # <<>>
  \/ /\ context.pageUrl # ""
     /\ checkUrlForSensitivePatterns(context.pageUrl) # <<>>
  \/ /\ context.semanticContext # ""
     /\ checkSemanticContext(context.semanticContext) # <<>>
  \/ /\ context.action = "type_text"
     /\ assessTypeAction(context) # <<>>

\* C17: the assessment is non-destructive, and then low, exactly when no
\* signal fires; with any signal fired it is destructive, a low one included.
ThmC17_DestructiveIffSignal ==
  assessOutput # <<>> =>
    /\ assessOutput[1].isDestructive = SomeSignalFires(assessInput)
    /\ ~assessOutput[1].isDestructive => assessOutput[1].riskLevel = "low"
    /\ (~assessOutput[1].isDestructive /\ assessOutput[1].riskLevel = "low")
         = ~SomeSignalFires(assessInput)

\* The only signal is the low-risk "cart" context: destructive at low risk.
WitC17_LowSignalIsDestructive ==
  /\ assessOutput # <<>>
  /\ assessInput.semanticContext = "in cart"
  /\ Len(FiredSignals(assessInput)) = 1
  /\ assessOutput[1].isDestructive
  /\ assessOutput[1].riskLevel = "low"

\* The serialized attributes contain a sensitive-form-field substring.
HasSensitiveFormField(attributes) ==
  \E i \in Indices(SENSITIVE_FORM_INDICATORS) :
    Includes(ToLowerCase(JsonStringify(attributes)),
             SENSITIVE_FORM_INDICATORS[i])

\* C18: attributes with a sensitive-form-field substring yield a critical
\* financial candidate, on a submit control or button with a
\* destructive-intent substring too, and the context is assessed critical.
CexC18_SensitiveFieldIsCritical ==
  (/\ assessOutput # <<>>
   /\ assessInput.hasElement
   /\ HasSensitiveFormField(assessInput.elementAttributes))
    => /\ \E c \in Indices(FiredSignals(assessInput)) :
            /\ FiredSignals(assessInput)[c].riskLevel = "critical"
            /\ FiredSignals(assessInput)[c].category = "financial"
            /\ Includes(FiredSignals(assessInput)[c].reason,
                        "Sensitive form field detected")
       /\ assessOutput[1].riskLevel = "critical"

\* The arguments of the tool call with the given id, as the conversation
\* holds them.
ArgsOf(id) ==
  LET a == CHOOSE i \in Indices(conversationHistory) :
             /\ conversationHistory[i].role = "assistant"
             /\ \E k \in Indices(conversationHistory[i].tool_calls) :
                  conversationHistory[i].tool_calls[k].id = id
      calls == conversationHistory[a].tool_calls
      k == CHOOSE j \in Indices(calls) : calls[j].id = id
  IN  calls[k].args

\* The task's update_plan dispatches that returned.
PlanUpdates ==
  {i \in Indices(dispatched) :
     dispatched[i].name = "update_plan" /\ ~dispatched[i].threw}

\* The arguments of the task's last update_plan that returned.
LastPlanRequest ==
  ArgsOf(dispatched[CHOOSE i \in PlanUpdates :
                      \A j \in PlanUpdates : j <= i].id)

\* C19: after an update_plan request with N steps the plan has N steps, the
\* i-th with the id step-i, the i-th requested description and the i-th
\* requested status, pending when the request leaves the status out.
ThmC19_PlanStepsAsRequested ==
  PlanUpdates # {} =>
    LET requested == LastPlanRequest.steps[1]
    IN  /\ currentPlan # <<>>
        /\ Len(currentPlan[1].steps) = Len(requested)
        /\ \A i \in Indices(requested) :
             /\ currentPlan[1].steps[i].description = requested[i].description
             /\ currentPlan[1].steps[i].status =
                  IF requested[i].status = "" THEN "pending"
                  ELSE requested[i].status

\* A second update_plan of the task replaced a one-step plan by two steps,
\* one with a status and one without.
WitC19_TwoStepsAfterOne ==
  /\ Cardinality(PlanUpdates) = 2
  /\ Len(LastPlanRequest.steps[1]) = 2
  /\ currentPlan[1].steps[1].status = "completed"
  /\ currentPlan[1].steps[2].status = "pending"
  /\ currentPlan[1].steps[2].description = "add to cart"

\* C20: after every update_plan request the plan's current step index lies
\* in [0, steps.length).
CexC20_IndexInRange ==
  PlanUpdates # {} =>
    /\ currentPlan # <<>>
    /\ 0 <= currentPlan[1].currentStepIndex
    /\ currentPlan[1].currentStepIndex < Len(currentPlan[1].steps)

\* How far a step status is along pending, in_progress, finished.
StatusRank(status) ==
  CASE status = "pending" -> 0
    [] status = "in_progress" -> 1
    [] OTHER -> 2

\* C21: updateStepStatus never moves a step of the plan back to an earlier
\* status; a step goes back only when setPlan replaces the whole plan.
CexC21_StatusOnlyForward ==
  [][trackerOp' = "updateStepStatus"
       => /\ Len(currentPlan') = Len(currentPlan)
          /\ currentPlan # <<>> =>
               \A i \in Indices(currentPlan[1].steps) :
                 StatusRank(currentPlan'[1].steps[i].status)
                   >= StatusRank(currentPlan[1].steps[i].status)]_vars

\* C22: at the start of every task, under every configuration, the plan has
\* the new task as its goal and no steps, adaptation notes or completion
\* criteria.
CexC22_PlanFreshAtTaskStart ==
  (pc = "loop" /\ iteration = 0 /\ taskNo >= 1)
    => /\ currentPlan # <<>>
       /\ currentPlan[1].goal = task
       /\ currentPlan[1].steps = <<>>
       /\ currentPlan[1].adaptations = <<>>
       /\ currentPlan[1].completionCriteria = <<>>

\* C23: the start of a task sets the completion flag to false, empties the
\* confirmed set and appends the goal as a user entry after the entries of
\* the earlier tasks, which stay as they were.
ThmC23_TaskStartResets ==
  [][taskNo' # taskNo
       => /\ taskNo' = taskNo + 1
          /\ isTaskComplete' = FALSE
          /\ confirmedActions' = {}
          /\ conversationHistory' =
               Append(conversationHistory, Message("user", task', 0, <<>>))]_vars

\* The second task has just started after a first task that was completed
\* by an approved complete_task.
WitC23_StartedAfterCompletedTask ==
  /\ taskNo = 2
  /\ pc = "loop"
  /\ iteration = 0
  /\ everApproved # {}
  /\ confirmedActions = {}
  /\ ~isTaskComplete
  /\ \E i \in Indices(conversationHistory) :
       /\ conversationHistory[i].role = "tool"
       /\ conversationHistory[i].content = "summary"
  /\ conversationHistory[Len(conversationHistory)] = Message("user", task, 0, <<>>)

InvC24 ==
  (config.showPlanVisualization /\ config.showActionHistory)
    => /\ Len(actionHistory) >= Len(dispatched)
       /\ \A i \in Indices(dispatched) :
            LET e == actionHistory[Len(actionHistory) - Len(dispatched) + i]
            IN  /\ e.tool = dispatched[i].name
                /\ e.iteration = dispatched[i].iteration
                /\ e.status = IF dispatched[i].threw THEN "failed"
                              ELSE "success"
       /\ (taskNo = 1) => Len(actionHistory) = Len(dispatched)
       /\ (/\ pc = "idle" /\ taskNo >= 1
           /\ Len(dispatched) = config.maxIterations
           /\ \A i \in Indices(dispatched) :
                /\ dispatched[i].name = "get_page_content"
                /\ dispatched[i].iteration = i)
            => /\ outcome = "exhausted"
               /\ ~isTaskComplete
               /\ iteration = config.maxIterations

ThmC25_OneThingAtATime ==
  /\ [](/\ Len(outstanding) <= 1
        /\ outcome # "running" => outstanding = <<>>)
  /\ [][taskNo' # taskNo
          => /\ outcome # "running"
             /\ outstanding = <<>>
             /\ outcome' = "running"]_vars
  /\ [][(outstanding' # outstanding /\ outstanding' # <<>>)
          => outstanding \in {<<>>, <<"prompt">>}]_vars

\* In the second task of the session a dispatch is outstanding after an
\* approved prompt.
WitC25_DispatchAfterPromptInSecondTask ==
  /\ taskNo = 2
  /\ outstanding = <<"dispatch">>
  /\ gate.prompted /\ gate.approved

\* The tool calls of the last decision in the conversation.
LastDecision ==
  LET a == CHOOSE i \in Indices(conversationHistory) :
             /\ conversationHistory[i].role = "assistant"
             /\ \A j \in (i + 1)..Len(conversationHistory) :
                  conversationHistory[j].role # "assistant"
  IN  conversationHistory[a].tool_calls

\* C26: a streamed thinking update changes none of the conversation, the
\* plan, the confirmed set and the completion flag, and gates or dispatches
\* nothing; a call is gated, prompted for or dispatched only when the model
\* call has returned, its stream is over and its decision is in the
\* conversation.
ThmC26_StreamingIsObservational ==
  /\ [][(pc = "chat" /\ pc' = "chat")
          => UNCHANGED <<conversationHistory, currentPlan, confirmedActions,
                         isTaskComplete, currentElements, actionHistory,
                         pages, currentPageId, toolCalls, callIdx, prompts,
                         dispatched, gate, iteration>>]_vars
  /\ [](pc \in {"call", "confirm", "exec"}
          => /\ thinkingContent = ""
             /\ \A i \in Indices(outstanding) : outstanding[i] # "model"
             /\ toolCalls = LastDecision)
  /\ [][(dispatched' # dispatched \/ prompts' # prompts \/ gate' # gate)
          => (pc # "chat" /\ thinkingContent = "")]_vars

\* The second model call of a task is streaming its reasoning after the
\* first call's reasoning was shown and its decision dispatched.
WitC26_StreamingInSecondIteration ==
  /\ pc = "chat"
  /\ iteration = 2
  /\ thinkingContent = "hmhm"
  /\ thinkingBuffer = "hmhm"
  /\ Len(dispatched) = 1

\* The tool-result entries that carry the correlation id.
AnswersTo(id) ==
  {i \in Indices(conversationHistory) :
     /\ conversationHistory[i].role = "tool"
     /\ conversationHistory[i].tool_call_id = id}

\* C27: when a model request is about to be made, every tool call of every
\* assistant entry has exactly one tool-result entry with its id.
CexC27_EveryCallAnswered ==
  pc = "chat" =>
    \A a \in Indices(conversationHistory) :
      conversationHistory[a].role = "assistant" =>
        \A k \in Indices(conversationHistory[a].tool_calls) :
          Cardinality(AnswersTo(conversationHistory[a].tool_calls[k].id)) = 1

\* C28: with confirmation required, no click is dispatched without the
\* user's approval in this task on an element that is on the page under the
\* given id and whose text contains a keyword of a medium-or-higher category,
\* whatever get_page_content and find_element calls came before.
CexC28_GateSeesTheClickedElement ==
  \A k \in 1..Len(dispatched) :
    LET d == dispatched[k]
    IN  (/\ config.requireConfirmation
         /\ d.name = "click"
         /\ d.target # <<>>
         /\ checkTextForDestructiveKeywords(d.target[1]) # <<>>)
        => (d.gate.approved \/ d.gate.known)

\* C29 as stated: with confirmation required, every dispatched operation
\* whose assessment is destructive was confirmed by the user in the same
\* task, by an approved prompt for it or by an earlier approval of its key.
CexC29_DestructiveIsConfirmed ==
  \A i \in Indices(dispatched) :
    LET d == dispatched[i]
    IN  (config.requireConfirmation /\ d.gate.isDestructive)
        => \/ \E j \in Indices(prompts) :
                prompts[j].id = d.id /\ prompts[j].answer
           \/ \E j \in Indices(prompts) :
                /\ prompts[j].key = d.gate.key
                /\ prompts[j].answer
                /\ prompts[j].id < d.id

\* C29 as amended: with confirmation required, every dispatched operation
\* whose assessment is destructive with a risk of medium or higher was
\* confirmed by the user in the same task, by an approved prompt for it or by
\* an earlier approval of its key; a destructive assessment of risk low is
\* dispatched without a prompt.
ThmC29_DestructiveAboveLowIsConfirmed ==
  \A i \in Indices(dispatched) :
    LET d == dispatched[i]
    IN  (config.requireConfirmation /\ d.gate.isDestructive) =>
          IF d.gate.riskLevel = "low"
          THEN ~d.gate.prompted
          ELSE \/ \E j \in Indices(prompts) :
                    prompts[j].id = d.id /\ prompts[j].answer
               \/ \E j \in Indices(prompts) :
                    /\ prompts[j].key = d.gate.key
                    /\ prompts[j].answer
                    /\ prompts[j].id < d.id

\* A destructive operation of risk low dispatched without a prompt and one
\* of a higher risk dispatched on the user's approval, in the same task.
WitC29_LowUnpromptedHigherApproved ==
  /\ config.requireConfirmation
  /\ \E i, k \in Indices(dispatched) :
       /\ dispatched[i].gate.isDestructive
       /\ dispatched[i].gate.riskLevel = "low"
       /\ ~dispatched[i].gate.prompted
       /\ dispatched[k].gate.isDestructive
       /\ dispatched[k].gate.riskLevel \in {"medium", "high", "critical"}
       /\ dispatched[k].gate.approved

\* The step on which the user denies a confirmation prompt.
Denial ==
  /\ Len(prompts') = Len(prompts) + 1
  /\ ~prompts'[Len(prompts')].answer

\* C30: a denied confirmation changes nothing but the conversation, which
\* gets the tool-result 'Action cancelled by user': the confirmed set, the
\* plan, the audit log, the element table, the pages and the completion flag
\* are unchanged, nothing is dispatched, and the loop goes on with the next
\* tool call or the next iteration; a denied complete_task leaves an
\* incomplete task incomplete.
ThmC30_DenialChangesOnlyConversation ==
  [][Denial =>
       /\ confirmedActions' = confirmedActions
       /\ currentPlan' = currentPlan
       /\ actionHistory' = actionHistory
       /\ currentElements' = currentElements
       /\ isTaskComplete' = isTaskComplete
       /\ pages' = pages
       /\ currentPageId' = currentPageId
       /\ dispatched' = dispatched
       /\ conversationHistory' =
            Append(conversationHistory,
                   Message("tool", "Action cancelled by user",
                           prompts'[Len(prompts')].id, <<>>))
       /\ pc' \in {"call", "sleep"}
       /\ outcome' = "running"
       /\ (ToolCallAt(toolCalls, callIdx).name = "complete_task"
           /\ ~isTaskComplete) => ~isTaskComplete']_vars

\* The user denied a complete_task and the task, still incomplete, is in a
\* later iteration.
WitC30_DeniedCompleteTaskLoopsOn ==
  /\ \E j \in Indices(prompts) :
       /\ ~prompts[j].answer
       /\ prompts[j].key = "complete_task::privacy"
  /\ ~isTaskComplete
  /\ iteration = 2
  /\ pc = "chat"
  /\ dispatched = <<>>

FailedToClick(result) ==
  Len(result) >= 15 /\ SubSeq(result, 1, 15) = "Failed to click"

\* C32: an audit entry has outcome failed whenever the operation it records
\* failed against the browser: a click that could not find its element is
\* recorded as failed, never as success.
CexC32_FailedClickIsRecordedFailed ==
  \A i \in Indices(actionHistory) :
    (actionHistory[i].tool = "click" /\ FailedToClick(actionHistory[i].result))
      => actionHistory[i].status = "failed"

\* The last dispatch of the task was a find_element by attribute, called as
\* the tool contract names its arguments.
FoundByAttribute ==
  /\ dispatched # <<>>
  /\ pc \in {"call", "sleep", "loop", "chat", "idle"}
  /\ dispatched[Len(dispatched)].name = "find_element"
  /\ ~dispatched[Len(dispatched)].threw
  /\ ArgsOf(dispatched[Len(dispatched)].id).attribute # ""
  /\ ArgsOf(dispatched[Len(dispatched)].id).attribute_value # ""

\* C33: find_element called with attribute and attribute_value returns only
\* an element whose named attribute contains that value, and reports that no
\* element was found when no candidate has such an attribute.
CexC33_FoundElementHasTheAttribute ==
  FoundByAttribute =>
    LET d == dispatched[Len(dispatched)]
        args == ArgsOf(d.id)
        dom == Dom(pages[PageOf(pages, currentPageId)].page.url)
        found == SubSeq(d.result, 1, 13) = "Found element"
    IN  /\ found =>
             AttributeIncludes(currentElements[1].attributes, args.attribute,
                               args.attribute_value)
        /\ (\A i \in 1..Len(dom) :
              ~AttributeIncludes(dom[i].attributes, args.attribute,
                                 args.attribute_value)) => ~found

\* The step on which a tool of the given name is dispatched and returns.
Returned(name) ==
  /\ Len(dispatched') = Len(dispatched) + 1
  /\ dispatched'[Len(dispatched')].name = name
  /\ ~dispatched'[Len(dispatched')].threw

\* C34: for any sequence of new_tab and close_tab operations createNewTab
\* returns an id that no open tab has, so opening a tab adds an entry to the
\* tab table and never replaces or drops the entry of an open tab.
CexC34_NewTabIdIsFresh ==
  [][Returned("new_tab") =>
       /\ createNewTabId(pages) \notin PageIds(pages)
       /\ Len(pages') = Len(pages) + 1
       /\ \A i \in 1..Len(pages) : pages'[i] = pages[i]]_vars

\* What getCurrentPage returns: <<page>>, or <<>> when it throws.
getCurrentPage(pgs, cur) ==
  IF HasCurrentPage(pgs, cur) THEN <<pgs[PageOf(pgs, cur)].page>> ELSE <<>>

\* The step on which a tool of the given name is dispatched and throws.
Threw(name) ==
  /\ Len(dispatched') = Len(dispatched) + 1
  /\ dispatched'[Len(dispatched')].name = name
  /\ dispatched'[Len(dispatched')].threw

\* C35: the current page id is null or the id of a tab in the tab table;
\* switchTab or closeTab with an unknown id fails and leaves the tab table
\* and the current page unchanged; createNewTab leaves the current page
\* unchanged; closing the current tab makes the first remaining tab current,
\* or none when no tab remains.
CexC35_CurrentPageIsKept ==
  /\ [](currentPageId = NoPage \/ currentPageId \in PageIds(pages))
  /\ [][(Threw("switch_tab") \/ Threw("close_tab")) =>
          (pages' = pages /\ currentPageId' = currentPageId)]_vars
  /\ [][Returned("new_tab") =>
          /\ currentPageId' = currentPageId
          /\ getCurrentPage(pages', currentPageId')
               = getCurrentPage(pages, currentPageId)]_vars
  /\ [][(Returned("close_tab") /\ currentPageId \notin PageIds(pages')) =>
          currentPageId' = IF pages' = <<>> THEN NoPage ELSE pages'[1].id]_vars

\* C36: the high-risk account candidate for typing into a password field is
\* never the returned assessment: whenever it fires, the attribute signal
\* fires as well with a risk of high or critical and is evaluated earlier, so
\* the assessment returned is not the type-specific one.
ThmC36_PasswordCandidateIsShadowed ==
  (/\ assessOutput # <<>>
   /\ assessInput.action = "type_text"
   /\ Attr(assessInput.elementAttributes, "type") = "password")
  => LET attribute ==
           checkAttributesForDestructiveIndicators(assessInput.elementAttributes)
         typed == assessTypeAction(assessInput)
     IN  /\ typed # <<>>
         /\ typed[1].reason = "Typing into password field"
         /\ attribute # <<>>
         /\ RISK_LEVEL_ORDER[attribute[1].riskLevel]
              >= RISK_LEVEL_ORDER[typed[1].riskLevel]
         /\ assessOutput[1].reason # typed[1].reason
         /\ RISK_LEVEL_ORDER[assessOutput[1].riskLevel]
              >= RISK_LEVEL_ORDER[attribute[1].riskLevel]

\* Typing into a password field that is a button with a destructive
\* attribute: the attribute signal has the risk of the password candidate and
\* is the one returned.
WitC36_TieWithButtonSignal ==
  /\ assessOutput # <<>>
  /\ assessInput.action = "type_text"
  /\ Attr(assessInput.elementAttributes, "type") = "password"
  /\ assessInput.elementText = ""
  /\ assessOutput[1].riskLevel = "high"
  /\ assessOutput[1].category = "content_modification"

ThmC38_WaitIsCapped ==
  \A i \in Indices(dispatched) :
    LET d == dispatched[i]
        requested == ArgsOf(d.id).milliseconds
        expected == IF requested <= 10000 THEN requested ELSE 10000
    IN  (d.name = "wait" /\ ~d.threw) =>
          /\ d.waited # <<>>
          /\ d.waited[1] <= 10000
          /\ d.waited[1] = expected
          /\ d.result = "Waited " \o ToString(expected) \o "ms"

\* A wait of a minute was requested and ten seconds were waited.
WitC38_MinuteCutToTenSeconds ==
  \E i \in Indices(dispatched) :
    /\ dispatched[i].name = "wait"
    /\ ArgsOf(dispatched[i].id).milliseconds = 60000
    /\ dispatched[i].waited = <<10000>>
    /\ dispatched[i].result = "Waited 10000ms"

\* The step on which the model's decision arrives after its thinking was
\* streamed to the visualizer.
DecisionAfterStreaming ==
  /\ pc = "chat"
  /\ Len(conversationHistory') > Len(conversationHistory)
  /\ conversationHistory'[Len(conversationHistory) + 1].role = "assistant"
  /\ config.showPlanVisualization
  /\ config.showThinkingProcess
  /\ thinkingContent # ""
  /\ thinkingBuffer # ""

\* C39: with plan visualization on, after each model decision whose
\* thinking was streamed the visualizer's thinking buffer is cleared, so the
\* streamed thinking of the next iteration is displayed from its first
\* character whatever its length.
CexC39_ThinkingBufferIsCleared ==
  [][DecisionAfterStreaming => thinkingBuffer' = ""]_vars

\* The deltas streamed for an index, in arrival order.
DeltasOf(i) == SelectSeq(deltas, LAMBDA d : IndexOfDelta(d) = i)

StreamedIndices == {IndexOfDelta(deltas[k]) : k \in Indices(deltas)}

RECURSIVE ConcatArguments(_)
ConcatArguments(ds) ==
  IF ds = <<>> THEN ""
  ELSE ds[1].arguments \o ConcatArguments(Tail(ds))

\* The id streamed for an index: "" when no delta of the index has one.
IdStreamed(i) ==
  LET withId == SelectSeq(DeltasOf(i), LAMBDA d : d.id # "")
  IN  IF withId = <<>> THEN "" ELSE withId[1].id

\* The name streamed for an index: "" when no delta of the index has one.
NameStreamed(i) ==
  LET withName == SelectSeq(DeltasOf(i), LAMBDA d : d.name # "")
  IN  IF withName = <<>> THEN "" ELSE withName[Len(withName)].name

\* C40: the assembled decision holds one tool call per streamed
\* index, in index order, each with the id and the name streamed for that
\* index and with the concatenation, in arrival order, of that index's
\* argument fragments.
CexC40_OneCallPerStreamedIndex ==
  /\ Len(streamedToolCalls) = Cardinality(StreamedIndices)
  /\ \A k \in Indices(streamedToolCalls) : streamedToolCalls[k] # <<>>
  /\ \A i \in StreamedIndices :
       LET k == Cardinality({j \in StreamedIndices : j <= i})
       IN  /\ k <= Len(streamedToolCalls)
           /\ streamedToolCalls[k] # <<>>
           /\ streamedToolCalls[k][1].id = IdStreamed(i)
           /\ streamedToolCalls[k][1].name = NameStreamed(i)
           /\ streamedToolCalls[k][1].arguments = ConcatArguments(DeltasOf(i))

====
